---- MODULE Spec2Model ----
(***************************************************************************)
(* Canvas state engine of the Rplace clone: the run-length pixel codec,    *)
(* the Convex canvas store (convex/functions.ts and its earlier backend    *)
(* variants) and the client-side optimistic update reconciler (App.tsx).   *)
(*                                                                         *)
(* A JavaScript string is modelled as a sequence of one-character strings, *)
(* so that formatting, splitting and parsing are computed and not assumed. *)
(* A colour token such as '#FFFFFF' is abbreviated to one symbol.          *)
(***************************************************************************)
EXTENDS Integers, Sequences, FiniteSets, TLC

VARIABLES
    cPixels,      \* codec run: the pixel array given to compressPixelData
    cLoop,        \* codec run: the loop variables of compressPixelData
    cCompressed,  \* codec run: the string compressPixelData returned
    cOut,         \* codec run: the array decompressPixelData returned
    cPc,          \* codec run: "loop" | "compressed" | "decompressed"
    db,           \* the "canvas" table: the pixels string of each document
    env,          \* process.env.SIZE as <<width, height>>
    envChanges,   \* how often SIZE has been reconfigured
    tx,           \* per caller: the function it is running or has last run
    calls,        \* queries and mutations started so far
    pixelDocs,    \* per-pixel backend: the documents of the "pixels" table
    lastBatch,    \* per-pixel backend: the last updatePixels call and its outcome
    localPixelData,  \* client: the grid it shows (and draws on its canvas)
    pendingUpdates,  \* client: the Map from "x,y" to the colour awaiting confirmation
    handlerPending,  \* client: the Map object the socket's message handler closed over
    stateIsFirstMap, \* client: the pendingUpdates state still is that Map object
    submissions,     \* client: the updatePixel promises not yet settled
    settled,         \* client: the settled promises, fulfilled or rejected
    latestEdit,      \* client: per cell, the number of its latest local edit
    edits,           \* client: local edits made so far
    wsConnection,       \* channel: the wsConnection state, 0 for null, else a socket
    reconnectAttempts,  \* channel: the reconnectAttempts state
    isConnected,        \* channel: the isConnected state
    mounted,            \* channel: the component is mounted
    sockets,            \* channel: every WebSocket made, its readyState and closure
    timers,             \* channel: the reconnect timeouts waiting to fire
    delays,             \* channel: the delays scheduled since the last onopen
    reconnects,         \* channel: the sockets made since the last onopen
    now,                \* fallback: Date.now(), milliseconds since the mount
    lastServerSync,     \* fallback: the lastServerSync state
    fallbackDue,        \* fallback: when the interval of the effect fires next
    fallbackLogs,       \* fallback: lines logged by the interval's callback
    canvasQueries,      \* fallback: getCanvas reads the client has requested
    boot,               \* bootstrap: the loading state of the client
    resizeRun,    \* a call of resizePixelData: its arguments and its result
    decodeRun     \* a call of decompressPixelData: its arguments and its result

codecVars == <<cPixels, cLoop, cCompressed, cOut, cPc>>

storeVars == <<db, env, envChanges, tx, calls>>

sparseVars == <<pixelDocs, lastBatch>>

clientVars == <<localPixelData, pendingUpdates, handlerPending, stateIsFirstMap,
                submissions, settled, latestEdit, edits>>

helperVars == <<resizeRun, decodeRun>>

channelVars == <<wsConnection, reconnectAttempts, isConnected, mounted,
                 sockets, timers, delays, reconnects>>

syncVars == <<now, lastServerSync, fallbackDue, fallbackLogs, canvasQueries>>

bootVars == <<boot>>

\* the variables a codec step leaves alone
notCodecVars == <<storeVars, sparseVars, clientVars, helperVars,
    channelVars, syncVars, bootVars>>

\* the variables a store step leaves alone
notStoreVars == <<codecVars, sparseVars, clientVars, helperVars,
    channelVars, syncVars, bootVars>>

\* the variables a step of the per-pixel backend leaves alone
notSparseVars == <<codecVars, db, envChanges, tx, calls, clientVars, helperVars,
    channelVars, syncVars, bootVars>>

\* the variables a client step leaves alone
notClientVars == <<codecVars, storeVars, sparseVars, helperVars,
    channelVars, syncVars, bootVars>>

\* the variables a call of resizePixelData leaves alone
notResizeVars == <<codecVars, storeVars, sparseVars, clientVars, decodeRun,
    channelVars, syncVars, bootVars>>

\* the variables a call of decompressPixelData leaves alone
notDecodeVars == <<codecVars, storeVars, sparseVars, clientVars, resizeRun,
    channelVars, syncVars, bootVars>>

\* the variables a step of the channel leaves alone
notChannelVars == <<codecVars, storeVars, sparseVars, clientVars, helperVars,
                    syncVars, bootVars>>

\* the variables a step of the fallback timer leaves alone
notSyncVars == <<codecVars, storeVars, sparseVars, clientVars, helperVars,
                 channelVars, bootVars>>

vars == <<cPixels, cLoop, cCompressed, cOut, cPc,
          db, env, envChanges, tx, calls, pixelDocs, lastBatch,
          localPixelData, pendingUpdates, handlerPending, stateIsFirstMap,
          submissions, settled, latestEdit, edits,
          wsConnection, reconnectAttempts, isConnected, mounted,
          sockets, timers, delays, reconnects,
          now, lastServerSync, fallbackDue, fallbackLogs, canvasQueries,
          boot, resizeRun, decodeRun>>

----------------------------------------------------------------------------
(* Bounds and program constants                                            *)

\* longest short pixel array enumerated for the codec
MaxLen == 4

\* local edits made in one run
MaxEdits == 2

\* longest BATCH_UPDATE message
MaxRemoteBatch == 2

\* the clock of a run of the fallback timer stops after this many ticks
MaxTicks == 12

\* most WebSockets the client makes in one run
MaxSockets == 7

\* most parts of a compressed string given to decompressPixelData
MaxParts == 2

\* highest count of a run in such a string
MaxCount == 3

\* widest and highest grid given to resizePixelData
MaxResizeDim == 3

\* longest batch given to updatePixels
MaxBatch == 2

\* queries and mutations started in one run
MaxCalls == 3

\* reconfigurations of SIZE in one run
MaxEnvChanges == 1

\* run cap of compressPixelData (count < 999)
MAX_RUN_LENGTH == 999

\* '#FFFFFF', the filler colour of decompressPixelData / resizePixelData
DEFAULT_PIXEL_COLOR == <<"W">>

\* process.env.PALETTE: the allowed colours (two of them are enough to paint)
Palette == {<<"A">>, <<"B">>}

\* a colour string that is neither in the palette nor the filler
BadColor == <<"X">>

----------------------------------------------------------------------------
(* JavaScript string primitives                                            *)

Digits == <<"0", "1", "2", "3", "4", "5", "6", "7", "8", "9">>

IsDigit(ch) == \E i \in 1..10 : Digits[i] = ch

DigitVal(ch) == (CHOOSE i \in 1..10 : Digits[i] = ch) - 1

RECURSIVE NatToStr(_)
\* String(n) for a non-negative integer
NatToStr(n) ==
    IF n < 10 THEN <<Digits[n + 1]>>
    ELSE NatToStr(n \div 10) \o <<Digits[(n % 10) + 1]>>

\* `${n}` for an integer
IntToStr(n) == IF n < 0 THEN <<"-">> \o NatToStr(-n) ELSE NatToStr(n)

RECURSIVE DigitPrefix(_, _, _)
\* the value of the longest run of digits of s from position i on, acc so far
DigitPrefix(s, i, acc) ==
    IF i > Len(s) \/ ~IsDigit(s[i]) THEN acc
    ELSE DigitPrefix(s, i + 1, acc * 10 + DigitVal(s[i]))

\* parseInt(s, 10): nan when s does not start with an optional sign and a digit
parseInt(s) ==
    LET neg == Len(s) >= 1 /\ s[1] = "-"
        from == IF neg THEN 2 ELSE 1
    IN  IF from > Len(s) \/ ~IsDigit(s[from])
        THEN [nan |-> TRUE, val |-> 0]
        ELSE [nan |-> FALSE,
              val |-> IF neg THEN 0 - DigitPrefix(s, from, 0)
                      ELSE DigitPrefix(s, from, 0)]

RECURSIVE SplitFrom(_, _, _, _)
\* s.split(d) continued at position i with the current piece cur
SplitFrom(s, d, i, cur) ==
    IF i > Len(s) THEN <<cur>>
    ELSE IF s[i] = d THEN <<cur>> \o SplitFrom(s, d, i + 1, <<>>)
    ELSE SplitFrom(s, d, i + 1, Append(cur, s[i]))

\* s.split(d) for a one-character separator: "".split(d) is [""]
Split(s, d) == SplitFrom(s, d, 1, <<>>)

RECURSIVE Join(_, _)
\* parts.join(d)
Join(parts, d) ==
    IF Len(parts) = 0 THEN <<>>
    ELSE IF Len(parts) = 1 THEN parts[1]
    ELSE parts[1] \o <<d>> \o Join(Tail(parts), d)

\* s.includes(ch)
Includes(s, ch) == \E i \in 1..Len(s) : s[i] = ch

\* Math.min
Min(a, b) == IF a < b THEN a ELSE b

\* new Array(n).fill(v)
Fill(n, v) == [i \in 1..n |-> v]

----------------------------------------------------------------------------
(* Pixel codec, convex/functions.ts                                        *)

\* one emitted group: the bare colour for a count of 1, else `${count}:${color}`
Group(count, color) ==
    IF count = 1 THEN color ELSE IntToStr(count) \o <<":">> \o color

\* the loop variables of compressPixelData before its first iteration (i is 1-based)
compressStart(pixels) ==
    [i |-> 2, currentColor |-> pixels[1], count |-> 1, compressed |-> <<>>]

\* the loop body without the cap on the length of a run
compressBodyNoCap(pixels, l) ==
    IF pixels[l.i] = l.currentColor
    THEN [l EXCEPT !.i = l.i + 1, !.count = l.count + 1]
    ELSE [i |-> l.i + 1, currentColor |-> pixels[l.i], count |-> 1,
          compressed |-> Append(l.compressed, Group(l.count, l.currentColor))]

\* the loop body that closes the run at every pixel
compressBodyNoMerge(pixels, l) ==
    [i |-> l.i + 1, currentColor |-> pixels[l.i], count |-> 1,
     compressed |-> Append(l.compressed, Group(l.count, l.currentColor))]

\* one iteration of the for loop of compressPixelData
compressBody(pixels, l) ==
    IF pixels[l.i] = l.currentColor /\ l.count < MAX_RUN_LENGTH
    THEN [l EXCEPT !.i = l.i + 1, !.count = l.count + 1]
    ELSE [i |-> l.i + 1, currentColor |-> pixels[l.i], count |-> 1,
          compressed |-> Append(l.compressed, Group(l.count, l.currentColor))]

\* compressEnd that forgets the last group
compressEndNoLast(l) == Join(l.compressed, "|")

\* after the loop: push the last group and join with '|'
compressEnd(l) ==
    Join(Append(l.compressed, Group(l.count, l.currentColor)), "|")

RECURSIVE compressLoop(_, _)
\* the for loop of compressPixelData run to its end from loop state l
compressLoop(pixels, l) ==
    IF l.i > Len(pixels) THEN l
    ELSE compressLoop(pixels, compressBody(pixels, l))

\* compressPixelData: run-length encoding joined with '|'
\* (pixels[0] of an empty array is undefined, which join renders as "")
compressPixelData(pixels) ==
    IF Len(pixels) = 0 THEN <<>>
    ELSE compressEnd(compressLoop(pixels, compressStart(pixels)))

\* the pixels one part of the compressed string expands to
ExpandPart(part) ==
    IF Includes(part, ":")
    THEN LET pieces == Split(part, ":")
             count  == parseInt(pieces[1])
             n      == IF count.nan \/ count.val < 0 THEN 0 ELSE count.val
         IN  Fill(n, pieces[2])
    ELSE <<part>>

RECURSIVE ExpandParts(_, _, _)
\* the for-of loop of decompressPixelData over parts, from part i on
ExpandParts(parts, i, pixels) ==
    IF i > Len(parts) THEN pixels
    ELSE ExpandParts(parts, i + 1, pixels \o ExpandPart(parts[i]))

\* decompressPixelData without the padding loop
decompressPixelDataNoPad(compressed, expectedLength) ==
    IF Len(compressed) = 0 THEN Fill(expectedLength, DEFAULT_PIXEL_COLOR)
    ELSE LET pixels == ExpandParts(Split(compressed, "|"), 1, <<>>)
         IN  SubSeq(pixels, 1, Min(Len(pixels), expectedLength))

\* decompressPixelData: expand, pad with the filler, cut to expectedLength
decompressPixelData(compressed, expectedLength) ==
    IF Len(compressed) = 0 THEN Fill(expectedLength, DEFAULT_PIXEL_COLOR)
    ELSE LET pixels == ExpandParts(Split(compressed, "|"), 1, <<>>)
             padded == IF Len(pixels) < expectedLength
                       THEN pixels \o Fill(expectedLength - Len(pixels),
                                           DEFAULT_PIXEL_COLOR)
                       ELSE pixels
         IN  SubSeq(padded, 1, expectedLength)

----------------------------------------------------------------------------
(* Canvas store, convex/functions.ts                                       *)

\* isValidColor that accepts every colour
isValidColorAny(color) == TRUE

\* isValidColor: palette.includes(color)
isValidColor(color) == color \in Palette

\* a parsed number as the handlers use it: NaN and undefined behave as 0 in
\* every use below (NaN !== w for the positive w of getSize, Math.min(NaN, w)
\* stops the copy loops, slice(0, NaN) is empty)
NumOr0(p) == IF p.nan THEN 0 ELSE p.val

\* addSizeToCompressed: `${width},${height}|${compressed}`
addSizeToCompressed(compressed, width, height) ==
    IntToStr(width) \o <<",">> \o IntToStr(height) \o <<"|">> \o compressed

\* extractSizeFromCompressed: the size header and the rest of the string;
\* a string without '|' is the old format (decompressed at length 0, size 0)
extractSizeFromCompressed(compressedWithSize) ==
    LET parts == Split(compressedWithSize, "|")
    IN  IF Len(parts) < 2
        THEN [width |-> 0, height |-> 0, compressed |-> compressedWithSize]
        ELSE LET nums == Split(parts[1], ",")
             IN  [width  |-> NumOr0(parseInt(nums[1])),
                  height |-> IF Len(nums) >= 2 THEN NumOr0(parseInt(nums[2]))
                             ELSE 0,
                  compressed |-> Join(Tail(parts), "|")]

RECURSIVE resizeCopy(_, _, _, _, _, _, _)
\* the nested copy loops of resizePixelData, rows outermost, from the k-th
\* copied cell on: newPixels[y * newWidth + x] = oldPixels[y * oldWidth + x]
resizeCopy(newPixels, oldPixels, oldWidth, newWidth, copyWidth, copyHeight, k) ==
    IF k >= copyWidth * copyHeight THEN newPixels
    ELSE LET y == k \div copyWidth
             x == k % copyWidth
             oldIndex == y * oldWidth + x
             newIndex == y * newWidth + x
         IN  resizeCopy([newPixels EXCEPT ![newIndex + 1] = oldPixels[oldIndex + 1]],
                        oldPixels, oldWidth, newWidth, copyWidth, copyHeight, k + 1)

\* resizePixelData whose row loop stops one row early (y < copyHeight - 1)
resizePixelDataShortCopy(oldPixels, oldWidth, oldHeight, newWidth, newHeight) ==
    resizeCopy(Fill(newWidth * newHeight, DEFAULT_PIXEL_COLOR), oldPixels,
               oldWidth, newWidth,
               Min(oldWidth, newWidth), Min(oldHeight, newHeight) - 1, 0)

\* resizePixelData: a filler grid with the old top-left region copied in
resizePixelData(oldPixels, oldWidth, oldHeight, newWidth, newHeight) ==
    resizeCopy(Fill(newWidth * newHeight, DEFAULT_PIXEL_COLOR), oldPixels,
               oldWidth, newWidth,
               Min(oldWidth, newWidth), Min(oldHeight, newHeight), 0)

\* the outcome of a handler that returned: its value and its writes
Returned(value, writes) == [threw |-> "", value |-> value, writes |-> writes]

\* the outcome of a handler that threw: Convex discards the transaction
Threw(error) == [threw |-> error, value |-> <<>>, writes |-> <<>>]

\* no write
NoWrite == <<>>

\* ctx.db.patch(canvas._id, {pixels}), canvas being the first document
Patch(pixels) == <<[kind |-> "patch", pixels |-> pixels]>>

\* ctx.db.insert("canvas", {pixels})
Insert(pixels) == <<[kind |-> "insert", pixels |-> pixels]>>

\* the table after one write
ApplyWrite(table, w) ==
    IF w.kind = "insert" THEN Append(table, w.pixels)
    ELSE [table EXCEPT ![1] = w.pixels]

RECURSIVE ApplyWrites(_, _)
\* the table after the writes of a committed transaction
ApplyWrites(table, writes) ==
    IF Len(writes) = 0 THEN table
    ELSE ApplyWrites(ApplyWrite(table, Head(writes)), Tail(writes))

\* getCanvas that returns the stored grid at its stored size when they differ
getCanvasStoredView(table, size) ==
    IF Len(table) = 0 THEN Returned([null |-> TRUE], NoWrite)
    ELSE LET stored == extractSizeFromCompressed(table[1])
         IN  Returned([null |-> FALSE, width |-> stored.width,
                       height |-> stored.height,
                       pixels |-> decompressPixelData(stored.compressed,
                                      stored.width * stored.height),
                       needsResize |-> stored.width # size[1]
                                       \/ stored.height # size[2]], NoWrite)

\* getCanvas that persists the resized grid, as a mutation would
getCanvasPersisting(table, size) ==
    IF Len(table) = 0 THEN Returned([null |-> TRUE], NoWrite)
    ELSE LET stored == extractSizeFromCompressed(table[1])
             pixels == resizePixelData(
                           decompressPixelData(stored.compressed,
                               stored.width * stored.height),
                           stored.width, stored.height, size[1], size[2])
         IN  Returned([null |-> FALSE, width |-> size[1], height |-> size[2],
                       pixels |-> pixels,
                       needsResize |-> stored.width # size[1]
                                       \/ stored.height # size[2]],
                      Patch(addSizeToCompressed(
                          compressPixelData(pixels), size[1], size[2])))

\* getCanvas (query): null without a document, else the grid at the
\* configured size, resized from the stored one when the sizes differ
getCanvas(table, size) ==
    IF Len(table) = 0 THEN Returned([null |-> TRUE], NoWrite)
    ELSE LET width  == size[1]
             height == size[2]
             stored == extractSizeFromCompressed(table[1])
         IN  IF stored.width # width \/ stored.height # height
             THEN LET oldPixels == decompressPixelData(stored.compressed,
                                        stored.width * stored.height)
                  IN  Returned([null |-> FALSE, width |-> width,
                                height |-> height,
                                pixels |-> resizePixelData(oldPixels,
                                    stored.width, stored.height, width, height),
                                needsResize |-> TRUE], NoWrite)
             ELSE Returned([null |-> FALSE, width |-> width, height |-> height,
                            pixels |-> decompressPixelData(stored.compressed,
                                                           width * height),
                            needsResize |-> FALSE], NoWrite)

\* resizeCanvas without the "only resize if needed" test
resizeCanvasAlways(table, size) ==
    IF Len(table) = 0 THEN Threw("Canvas not found")
    ELSE LET stored == extractSizeFromCompressed(table[1])
             oldPixels == decompressPixelData(stored.compressed,
                              stored.width * stored.height)
             newPixels == resizePixelData(oldPixels, stored.width,
                              stored.height, size[1], size[2])
         IN  Returned([resized |-> TRUE],
                      Patch(addSizeToCompressed(
                          compressPixelData(newPixels), size[1], size[2])))

\* resizeCanvas (mutation)
resizeCanvas(table, size) ==
    IF Len(table) = 0 THEN Threw("Canvas not found")
    ELSE LET width  == size[1]
             height == size[2]
             stored == extractSizeFromCompressed(table[1])
         IN  IF stored.width # width \/ stored.height # height
             THEN LET oldPixels == decompressPixelData(stored.compressed,
                                        stored.width * stored.height)
                      newPixels == resizePixelData(oldPixels, stored.width,
                                        stored.height, width, height)
                  IN  Returned([resized |-> TRUE],
                               Patch(addSizeToCompressed(
                                   compressPixelData(newPixels), width, height)))
             ELSE Returned([resized |-> FALSE], NoWrite)

\* initializeCanvas that resets an existing document to the blank grid
initializeCanvasReset(table, size) ==
    LET blank == addSizeToCompressed(
                     compressPixelData(Fill(size[1] * size[2], DEFAULT_PIXEL_COLOR)),
                     size[1], size[2])
    IN  IF Len(table) > 0 THEN Returned([id |-> 1], Patch(blank))
        ELSE Returned([id |-> Len(table) + 1], Insert(blank))

\* initializeCanvas (mutation): insert an all-filler grid unless one exists;
\* the value returned is the document's position in the table
initializeCanvas(table, size) ==
    IF Len(table) > 0 THEN Returned([id |-> 1], NoWrite)
    ELSE LET initialPixels == Fill(size[1] * size[2], DEFAULT_PIXEL_COLOR)
         IN  Returned([id |-> Len(table) + 1],
                      Insert(addSizeToCompressed(
                          compressPixelData(initialPixels), size[1], size[2])))

\* updatePixel that creates the record when there is none
updatePixelUpsert(table, size, args) ==
    IF ~isValidColor(args.color) THEN Threw("Invalid color")
    ELSE LET width  == size[1]
             height == size[2]
             pixels == IF Len(table) = 0
                       THEN Fill(width * height, DEFAULT_PIXEL_COLOR)
                       ELSE decompressPixelData(
                                extractSizeFromCompressed(table[1]).compressed,
                                width * height)
             index  == args.y * width + args.x
             newPixels == IF index >= 0 /\ index < Len(pixels)
                          THEN [pixels EXCEPT ![index + 1] = args.color]
                          ELSE pixels
             text == addSizeToCompressed(compressPixelData(newPixels), width, height)
         IN  Returned([success |-> TRUE],
                      IF Len(table) = 0 THEN Insert(text) ELSE Patch(text))

\* updatePixel that takes the index as x * width + y
updatePixelTransposed(table, size, args) ==
    IF ~isValidColor(args.color) THEN Threw("Invalid color")
    ELSE IF Len(table) = 0 THEN Threw("Canvas not found")
    ELSE LET width  == size[1]
             height == size[2]
             stored == extractSizeFromCompressed(table[1])
             pixels == decompressPixelData(stored.compressed, width * height)
             index  == args.x * width + args.y
         IN  IF index >= 0 /\ index < Len(pixels)
             THEN Returned([success |-> TRUE],
                      Patch(addSizeToCompressed(
                          compressPixelData([pixels EXCEPT ![index + 1] = args.color]),
                          width, height)))
             ELSE Returned([success |-> TRUE], NoWrite)

\* updatePixel that writes the grid back under the stored size header
updatePixelStoredHeader(table, size, args) ==
    IF ~isValidColor(args.color) THEN Threw("Invalid color")
    ELSE IF Len(table) = 0 THEN Threw("Canvas not found")
    ELSE LET width  == size[1]
             height == size[2]
             stored == extractSizeFromCompressed(table[1])
             pixels == decompressPixelData(stored.compressed, width * height)
             index  == args.y * width + args.x
         IN  IF index >= 0 /\ index < Len(pixels)
             THEN Returned([success |-> TRUE],
                      Patch(addSizeToCompressed(
                          compressPixelData([pixels EXCEPT ![index + 1] = args.color]),
                          stored.width, stored.height)))
             ELSE Returned([success |-> TRUE], NoWrite)

\* updatePixel (mutation)
updatePixel(table, size, args) ==
    IF ~isValidColor(args.color) THEN Threw("Invalid color")
    ELSE IF Len(table) = 0 THEN Threw("Canvas not found")
    ELSE LET width  == size[1]
             height == size[2]
             stored == extractSizeFromCompressed(table[1])
             pixels == decompressPixelData(stored.compressed, width * height)
             index  == args.y * width + args.x
         IN  IF index >= 0 /\ index < Len(pixels)
             THEN Returned([success |-> TRUE],
                      Patch(addSizeToCompressed(
                          compressPixelData([pixels EXCEPT ![index + 1] = args.color]),
                          width, height)))
             ELSE Returned([success |-> TRUE], NoWrite)

----------------------------------------------------------------------------
(* Per-pixel backend variant (one document per painted pixel): updatePixel, *)
(* getPixel and updatePixels over the "pixels" table                       *)

\* the first document at (x, y): the set is empty when there is none
DocsAt(docs, x, y) == {d \in docs : d.x = x /\ d.y = y}

\* getPixel (query): the document's colour, '#FFFFFF' without a document
getPixel(docs, x, y) ==
    IF DocsAt(docs, x, y) = {} THEN DEFAULT_PIXEL_COLOR
    ELSE (CHOOSE d \in DocsAt(docs, x, y) : TRUE).color

\* patch the existing document's colour, or insert a new document
PutPixel(docs, x, y, color) ==
    (docs \ DocsAt(docs, x, y)) \cup {[x |-> x, y |-> y, color |-> color]}

\* updatePixel (mutation) of the per-pixel backend: both checks throw
updatePixelDoc(docs, size, args) ==
    IF ~isValidColor(args.color)
    THEN [threw |-> "Invalid color", docs |-> docs]
    ELSE IF args.x < 0 \/ args.x >= size[1] \/ args.y < 0 \/ args.y >= size[2]
    THEN [threw |-> "out of bounds", docs |-> docs]
    ELSE [threw |-> "", docs |-> PutPixel(docs, args.x, args.y, args.color)]

RECURSIVE updatePixelsLoop(_, _, _, _)
\* the for-of loop of updatePixels from entry i on, docs being the table
\* with the writes made so far
updatePixelsLoop(docs, size, pixels, i) ==
    IF i > Len(pixels) THEN [threw |-> "", docs |-> docs]
    ELSE LET pixel == pixels[i]
         IN  IF ~isValidColor(pixel.color)
             THEN [threw |-> "Invalid color", docs |-> docs]
             ELSE IF pixel.x < 0 \/ pixel.x >= size[1]
                     \/ pixel.y < 0 \/ pixel.y >= size[2]
             THEN updatePixelsLoop(docs, size, pixels, i + 1)
             ELSE updatePixelsLoop(PutPixel(docs, pixel.x, pixel.y, pixel.color),
                                   size, pixels, i + 1)

\* updatePixels whose writes made before the throw are kept
updatePixelsNoRollback(docs, size, pixels) ==
    updatePixelsLoop(docs, size, pixels, 1)

RECURSIVE StopAtOutOfBounds(_, _, _)
\* the entries of a batch before its first out-of-bounds entry
StopAtOutOfBounds(size, pixels, i) ==
    IF i > Len(pixels) THEN pixels
    ELSE IF pixels[i].x < 0 \/ pixels[i].x >= size[1]
            \/ pixels[i].y < 0 \/ pixels[i].y >= size[2]
    THEN SubSeq(pixels, 1, i - 1)
    ELSE StopAtOutOfBounds(size, pixels, i + 1)

\* updatePixels that leaves the loop at an out-of-bounds entry (break for continue)
updatePixelsBreak(docs, size, pixels) ==
    LET out == updatePixelsLoop(docs, size, StopAtOutOfBounds(size, pixels, 1), 1)
    IN  IF out.threw # "" THEN [threw |-> out.threw, docs |-> docs] ELSE out

\* updatePixels that goes through the batch from its last entry to its first
updatePixelsBackwards(docs, size, pixels) ==
    updatePixelsLoop(docs, size,
                     [i \in 1..Len(pixels) |-> pixels[Len(pixels) + 1 - i]], 1)

RECURSIVE updatePixelsWrites(_, _, _)
\* the documents the loop of updatePixels looks up, and then patches or
\* inserts, from entry i on: one for every entry that is in bounds
updatePixelsWrites(size, pixels, i) ==
    IF i > Len(pixels) THEN 0
    ELSE IF ~isValidColor(pixels[i].color) THEN 0
    ELSE IF pixels[i].x < 0 \/ pixels[i].x >= size[1]
            \/ pixels[i].y < 0 \/ pixels[i].y >= size[2]
    THEN updatePixelsWrites(size, pixels, i + 1)
    ELSE 1 + updatePixelsWrites(size, pixels, i + 1)

\* updatePixels (mutation): the loop inside one transaction, which Convex
\* discards as a whole when the handler throws
updatePixels(docs, size, pixels) ==
    LET out == updatePixelsLoop(docs, size, pixels, 1)
    IN  IF out.threw # "" THEN [threw |-> out.threw, docs |-> docs] ELSE out

----------------------------------------------------------------------------
(* Client reconciler, src/App.tsx                                          *)

\* Map.set(key, value)
MapSet(m, key, value) ==
    [k \in DOMAIN m \cup {key} |-> IF k = key THEN value ELSE m[k]]

\* Map.delete(key)
MapDelete(m, key) == [k \in DOMAIN m \ {key} |-> m[k]]

\* Map.has(key)
MapHas(m, key) == key \in DOMAIN m

\* the client state after handleRemotePixelUpdate(x, y, color): a pending
\* key is deleted and the message dropped, else the cell is set and drawn
handleRemotePixelUpdate(data, pending, canvasWidth, x, y, color) ==
    LET index == y * canvasWidth + x
        key   == <<x, y>>
    IN  IF MapHas(pending, key)
        THEN [data |-> data, pending |-> MapDelete(pending, key)]
        ELSE [data |-> [data EXCEPT ![index + 1] = color], pending |-> pending]

RECURSIVE handleRemoteBatchUpdate(_, _, _, _)
\* the grid after handleRemoteBatchUpdate(pixels), from entry i on: every
\* entry whose index is in range is set and drawn
handleRemoteBatchUpdate(data, canvasWidth, pixels, i) ==
    IF i > Len(pixels) THEN data
    ELSE LET index == pixels[i].y * canvasWidth + pixels[i].x
         IN  handleRemoteBatchUpdate(
                 IF index >= 0 /\ index < Len(data)
                 THEN [data EXCEPT ![index + 1] = pixels[i].color]
                 ELSE data,
                 canvasWidth, pixels, i + 1)

\* updateSinglePixel that draws the cell without recording it as pending
updateSinglePixelNoPending(data, pending, canvasWidth, x, y, color) ==
    [data |-> [data EXCEPT ![y * canvasWidth + x + 1] = color],
     pending |-> pending]

\* updateSinglePixel that leaves a key that is pending already as it is
updateSinglePixelKeepFirst(data, pending, canvasWidth, x, y, color) ==
    [data |-> [data EXCEPT ![y * canvasWidth + x + 1] = color],
     pending |-> IF MapHas(pending, <<x, y>>) THEN pending
                 ELSE MapSet(pending, <<x, y>>, color)]

\* updateSinglePixel(x, y, color) up to the call of the mutation: the key is
\* set pending, the cell set and drawn
updateSinglePixel(data, pending, canvasWidth, x, y, color) ==
    LET index == y * canvasWidth + x
        key   == <<x, y>>
    IN  [data |-> [data EXCEPT ![index + 1] = color],
         pending |-> MapSet(pending, key, color)]

\* the .then callback of updateSinglePixel: the key is deleted
onUpdateResolved(pending, key) == MapDelete(pending, key)

\* a .catch callback that leaves the pending entry in place
onUpdateRejectedKeep(pending, key) == pending

\* the .catch callback of updateSinglePixel: the key is deleted, the grid kept
onUpdateRejected(pending, key) == MapDelete(pending, key)

----------------------------------------------------------------------------
(* Channel of the client, src/App.tsx: connectWebSocket, its socket        *)
(* handlers, the reconnect timeouts and the effect that opens the socket   *)

\* the retry limit of onclose
MAX_RECONNECT_ATTEMPTS == 5

\* the base and the cap of the backoff, in milliseconds
BACKOFF_BASE == 1000

BACKOFF_CAP == 30000

RECURSIVE Pow2(_)
\* Math.pow(2, n)
Pow2(n) == IF n = 0 THEN 1 ELSE 2 * Pow2(n - 1)

\* Math.min(1000 * Math.pow(2, reconnectAttempts), 30000)
backoffDelay(attempts) == Min(BACKOFF_BASE * Pow2(attempts), BACKOFF_CAP)

\* the component state and sockets a handler works on
Channel ==
    [ws |-> wsConnection, attempts |-> reconnectAttempts,
     connected |-> isConnected, mounted |-> mounted, sockets |-> sockets]

\* ws.close(): an open socket closes cleanly, a connecting one fails
closeSocket(socks, id) ==
    IF socks[id].status \in {"connecting", "open"}
    THEN [socks EXCEPT ![id].status = "closing",
                       ![id].clean = (socks[id].status = "open")]
    ELSE socks

\* connectWebSocket() of the instance whose closure holds scope.ws and
\* scope.attempts: return if that socket is open, else make a socket and
\* store it with setWsConnection (state setters do nothing once unmounted)
connectWebSocket(c, scope) ==
    IF scope.ws # 0 /\ c.sockets[scope.ws].status = "open" THEN c
    ELSE LET id == Len(c.sockets) + 1
         IN  [c EXCEPT !.sockets = Append(c.sockets,
                                       [status |-> "connecting", clean |-> FALSE,
                                        scopeWs |-> scope.ws,
                                        attempts |-> scope.attempts]),
                       !.ws = IF c.mounted THEN id ELSE c.ws]

\* the render after a handler and the effect on [isInitialized,
\* connectWebSocket]: connectWebSocket is a new instance when wsConnection
\* or reconnectAttempts changed; then the cleanup closes the socket of the
\* previous run and the effect connects if wsConnection is null
useEffect(old, c) ==
    IF ~c.mounted \/ (old.ws = c.ws /\ old.attempts = c.attempts) THEN c
    ELSE LET cleaned == IF old.ws # 0
                        THEN [c EXCEPT !.sockets = closeSocket(c.sockets, old.ws)]
                        ELSE c
         IN  IF cleaned.ws = 0
             THEN connectWebSocket(cleaned, [ws |-> 0, attempts |-> cleaned.attempts])
             ELSE cleaned

\* ws.onopen
onopen(c, id) ==
    LET opened == [c EXCEPT !.sockets[id].status = "open"]
    IN  IF c.mounted
        THEN [opened EXCEPT !.ws = id, !.connected = TRUE, !.attempts = 0]
        ELSE opened

\* ws.onclose up to its test for a reconnect
onclose(c, id) ==
    LET closed == [c EXCEPT !.sockets[id].status = "closed"]
    IN  IF c.mounted
        THEN [closed EXCEPT !.ws = 0, !.connected = FALSE]
        ELSE closed

\* ws.onclose schedules a reconnect: the close was not clean and the
\* reconnectAttempts of the socket's closure is under the limit
SchedulesReconnect(socket, wasClean) ==
    ~wasClean /\ socket.attempts < MAX_RECONNECT_ATTEMPTS

\* the callback of the timeout: setReconnectAttempts(prev => prev + 1) and
\* the connectWebSocket of the closure that made the socket
onReconnectTimer(c, t) ==
    connectWebSocket(
        IF c.mounted THEN [c EXCEPT !.attempts = c.attempts + 1] ELSE c,
        [ws |-> t.scopeWs, attempts |-> t.attempts])

----------------------------------------------------------------------------
(* Fallback sync of the client, src/App.tsx                                *)

\* the silence after which the callback of the interval takes its branch
FALLBACK_WINDOW == 30000

\* the period of the interval
FALLBACK_INTERVAL == 30000

\* the callback of the interval: when Date.now() - lastServerSync is over
\* the window it logs a line, and does nothing else; the result is the
\* lines logged and the getCanvas reads requested
fallbackSync(time, lastSync, logs, queries) ==
    IF time - lastSync > FALLBACK_WINDOW
    THEN [logs |-> logs + 1, queries |-> queries]
    ELSE [logs |-> logs, queries |-> queries]

----------------------------------------------------------------------------
(* Bootstrap of the client, src/App.tsx: the getCanvas subscription and    *)
(* the effect that loads the canvas once                                   *)

\* the state before the first query result: initialCanvasData is <<>> for
\* undefined, else <<v>> with v the value getCanvas returned
BootStart ==
    [initialCanvasData |-> <<>>, isInitialized |-> FALSE, isLoading |-> TRUE,
     canvasWidth |-> 0, canvasHeight |-> 0, awaiting |-> "",
     loadTimer |-> FALSE]

\* initCanvas of the effect, run after a change of initialCanvasData or
\* isInitialized, up to its await or its end; b is the state, pixels the
\* localPixelData state (the palette is taken as loaded)
initCanvas(b, pixels) ==
    IF b.initialCanvasData = <<>> THEN [b |-> b, pixels |-> pixels]
    ELSE LET data == b.initialCanvasData[1]
         IN  IF data.null /\ ~b.isInitialized
             THEN [b |-> [b EXCEPT !.awaiting = "initializeCanvas"],
                   pixels |-> pixels]
             ELSE IF ~data.null /\ ~b.isInitialized
             THEN IF data.needsResize
                  THEN [b |-> [b EXCEPT !.awaiting = "resizeCanvas"],
                        pixels |-> pixels]
                  ELSE [b |-> [b EXCEPT !.canvasWidth = data.width,
                                        !.canvasHeight = data.height,
                                        !.isInitialized = TRUE,
                                        !.loadTimer = TRUE],
                        pixels |-> data.pixels]
             ELSE [b |-> b, pixels |-> pixels]

\* initCanvas after `await initializeCanvas({})`: setIsInitialized(true)
afterInitializeCanvas(b) == [b EXCEPT !.awaiting = "", !.isInitialized = TRUE]

\* initCanvas after `await resizeCanvas({})`: return
afterResizeCanvas(b) == [b EXCEPT !.awaiting = ""]

----------------------------------------------------------------------------
(* Codec runs: compress an array, then decompress the result               *)

Colors == Palette \cup {DEFAULT_PIXEL_COLOR}

\* every pixel array over cs of length lo..hi
SeqsOf(cs, lo, hi) == UNION {[1..n -> cs] : n \in lo..hi}

\* lengths around the run cap, and the 1500 of the specification's example
LongRuns == {MAX_RUN_LENGTH, MAX_RUN_LENGTH + 1, 1500, 2 * MAX_RUN_LENGTH + 1}

\* arrays holding a long run of one colour, alone or between short arrays
LongInputs ==
    {pre \o Fill(n, <<"A">>) \o post :
        pre \in SeqsOf(Palette, 0, 1), n \in LongRuns,
        post \in SeqsOf(Palette, 0, 1)}

CodecInputs == SeqsOf(Colors, 1, MaxLen) \cup LongInputs

CodecInit ==
    /\ cPixels \in CodecInputs
    /\ cLoop = compressStart(cPixels)
    /\ cCompressed = <<>>
    /\ cOut = <<>>
    /\ cPc = "loop"

\* one iteration of the loop of compressPixelData
CompressIterate ==
    /\ cPc = "loop"
    /\ cLoop.i <= Len(cPixels)
    /\ cLoop' = compressBody(cPixels, cLoop)
    /\ UNCHANGED <<cPixels, cCompressed, cOut, cPc>>
    /\ UNCHANGED notCodecVars

\* the loop is over: compressPixelData returns
CompressReturn ==
    /\ cPc = "loop"
    /\ cLoop.i > Len(cPixels)
    /\ cCompressed' = compressEnd(cLoop)
    /\ cPc' = "compressed"
    /\ UNCHANGED <<cPixels, cLoop, cOut>>
    /\ UNCHANGED notCodecVars

Decompress ==
    /\ cPc = "compressed"
    /\ cOut' = decompressPixelData(cCompressed, Len(cPixels))
    /\ cPc' = "decompressed"
    /\ UNCHANGED <<cPixels, cLoop, cCompressed>>
    /\ UNCHANGED notCodecVars

CodecIdle ==
    /\ cPixels = <<>>
    /\ cLoop = [i |-> 1, currentColor |-> <<>>, count |-> 0, compressed |-> <<>>]
    /\ cCompressed = <<>>
    /\ cOut = <<>>
    /\ cPc = "idle"

CodecNext == CompressIterate \/ CompressReturn \/ Decompress

----------------------------------------------------------------------------
(* Store runs: callers start mutations, which Convex runs as serializable  *)
(* transactions (a mutation whose reads were overwritten before it commits *)
(* is run again), while queries read the table and SIZE is reconfigured    *)

Procs == {"p1", "p2"}

\* the values SIZE takes: widths and heights that grow and shrink
Sizes == {<<1, 2>>, <<2, 1>>, <<2, 2>>}

\* coordinates in and one step around the largest canvas
Coords == -1..2

\* arguments of updatePixel
PixelArgs == [x : Coords, y : Coords, color : Palette \cup {BadColor}]

NoArgs == [x |-> 0, y |-> 0, color |-> <<>>]

IdleTx == [pc |-> "idle", op |-> "", args |-> NoArgs, read |-> <<>>,
           size |-> <<0, 0>>, epoch |-> 0, retried |-> FALSE,
           threw |-> "", value |-> <<>>]

StoreIdle ==
    /\ db = <<>>
    /\ env = <<1, 2>>
    /\ envChanges = 0
    /\ tx = [p \in Procs |-> IdleTx]
    /\ calls = 0

\* the table before the first call and after a first initializeCanvas
StoreInit ==
    /\ env \in Sizes
    /\ db \in {<<>>, ApplyWrites(<<>>, initializeCanvas(<<>>, env).writes)}
    /\ envChanges = 0
    /\ tx = [p \in Procs |-> IdleTx]
    /\ calls = 0

\* the table before the first call, or as initializeCanvas left it under the
\* present or an earlier value of SIZE
ConcInit ==
    /\ env \in Sizes
    /\ db \in {<<>>} \cup {ApplyWrites(<<>>, initializeCanvas(<<>>, size).writes) :
                               size \in Sizes}
    /\ envChanges = 0
    /\ tx = [p \in Procs |-> IdleTx]
    /\ calls = 0

\* the handler of a function run on the table and SIZE it read
Handler(t) ==
    IF t.op = "getCanvas" THEN getCanvas(t.read, t.size)
    ELSE IF t.op = "initializeCanvas" THEN initializeCanvas(t.read, t.size)
    ELSE IF t.op = "resizeCanvas" THEN resizeCanvas(t.read, t.size)
    ELSE updatePixel(t.read, t.size, t.args)

\* a caller invokes a query or a mutation: the handler reads SIZE and the table
Call(p, op, args) ==
    /\ tx[p].pc # "running"
    /\ calls < MaxCalls
    /\ calls' = calls + 1
    /\ tx' = [tx EXCEPT ![p] = [IdleTx EXCEPT !.pc = "running", !.op = op,
                  !.args = args, !.read = db, !.size = env,
                  !.epoch = envChanges]]
    /\ UNCHANGED <<db, env, envChanges>>
    /\ UNCHANGED notStoreVars

\* query(...) or mutation(...): a query only reads its snapshot of the table
IsQuery(op) == op = "getCanvas"

\* no check of the reads: a plain read-modify-write of the document
ValidatedAlways(p) == TRUE

\* the table a running function read has not been written since
Validated(p) == tx[p].read = db

\* the function of caller p can end now: a query always, a mutation once
\* its reads are validated
CanCommit(p) ==
    tx[p].pc = "running" /\ (IsQuery(tx[p].op) \/ Validated(p))

\* a query returns; the transaction of a mutation commits (or, if the
\* handler threw, ends without a write)
Commit(p) ==
    /\ CanCommit(p)
    /\ LET out == Handler(tx[p])
       IN  /\ db' = ApplyWrites(db, out.writes)
           /\ tx' = [tx EXCEPT ![p].pc = "done", ![p].read = <<>>,
                                ![p].threw = out.threw,
                                ![p].value = out.value]
    /\ UNCHANGED <<env, envChanges, calls>>
    /\ UNCHANGED notStoreVars

\* a conflicting write was committed first: Convex runs the mutation again
Retry(p) ==
    /\ tx[p].pc = "running"
    /\ ~IsQuery(tx[p].op)
    /\ ~Validated(p)
    /\ tx' = [tx EXCEPT ![p].read = db, ![p].size = env,
                        ![p].epoch = envChanges, ![p].retried = TRUE]
    /\ UNCHANGED <<db, env, envChanges, calls>>
    /\ UNCHANGED notStoreVars

\* the deployment's SIZE environment variable is changed
Reconfigure(size) ==
    /\ envChanges < MaxEnvChanges
    /\ size # env
    /\ env' = size
    /\ envChanges' = envChanges + 1
    /\ UNCHANGED <<db, tx, calls>>
    /\ UNCHANGED notStoreVars

\* one caller at a time: calls follow one another
StoreNext ==
    \/ Call("p1", "getCanvas", NoArgs)
    \/ Call("p1", "initializeCanvas", NoArgs)
    \/ Call("p1", "resizeCanvas", NoArgs)
    \/ \E args \in PixelArgs : Call("p1", "updatePixel", args)
    \/ Commit("p1")
    \/ \E size \in Sizes : Reconfigure(size)

\* a caller's first call
FirstCall(p, op, args) == tx[p].pc = "idle" /\ Call(p, op, args)

\* two callers, one mutation each, running concurrently
ConcNext ==
    \/ \E p \in Procs : FirstCall(p, "getCanvas", NoArgs)
    \/ \E p \in Procs : FirstCall(p, "initializeCanvas", NoArgs)
    \/ \E p \in Procs : FirstCall(p, "resizeCanvas", NoArgs)
    \/ \E p \in Procs, args \in PixelArgs : FirstCall(p, "updatePixel", args)
    \/ \E p \in Procs : Commit(p)
    \/ \E p \in Procs : Retry(p)

----------------------------------------------------------------------------
(* Runs of the per-pixel backend: single updates paint the table, then one *)
(* batch is given to updatePixels                                          *)

\* the coordinates of batch entries: inside every size, inside some sizes,
\* and outside all of them
BatchCoords == {<<0, 0>>, <<1, 0>>, <<-1, 0>>, <<0, 2>>}

BatchEntries ==
    {[x |-> c[1], y |-> c[2], color |-> col] :
        c \in BatchCoords, col \in Palette \cup {BadColor}}

Batches == UNION {[1..n -> BatchEntries] : n \in 0..MaxBatch}

NoBatch == [called |-> FALSE, pixels |-> <<>>, before |-> {}, threw |-> ""]

SparseIdle ==
    /\ pixelDocs = {}
    /\ lastBatch = NoBatch

SparseInit ==
    /\ env \in Sizes
    /\ pixelDocs = {}
    /\ lastBatch = NoBatch

\* a caller's updatePixel mutation
UpdatePixelDoc(args) ==
    /\ ~lastBatch.called
    /\ pixelDocs' = updatePixelDoc(pixelDocs, env, args).docs
    /\ UNCHANGED <<env, lastBatch>>
    /\ UNCHANGED notSparseVars

\* a caller's updatePixels mutation
UpdatePixels(pixels) ==
    /\ ~lastBatch.called
    /\ LET out == updatePixels(pixelDocs, env, pixels)
       IN  /\ pixelDocs' = out.docs
           /\ lastBatch' = [called |-> TRUE, pixels |-> pixels,
                            before |-> pixelDocs, threw |-> out.threw]
    /\ UNCHANGED env
    /\ UNCHANGED notSparseVars

SparseNext ==
    \/ \E args \in BatchEntries : UpdatePixelDoc(args)
    \/ \E pixels \in Batches : UpdatePixels(pixels)

----------------------------------------------------------------------------
(* Client runs: local edits, the settling of their mutations, and remote   *)
(* messages, in any order                                                  *)

\* the client's canvas
canvasWidth == 2

canvasHeight == 1

Cells == (0..(canvasWidth - 1)) \X (0..(canvasHeight - 1))

RemoteEntries ==
    {[x |-> c[1], y |-> c[2], color |-> col] : c \in Cells, col \in Palette}

RemoteBatches == UNION {[1..n -> RemoteEntries] : n \in 0..MaxRemoteBatch}

\* the updatePixel calls a client can have made
Submissions ==
    {[x |-> c[1], y |-> c[2], color |-> col, id |-> n] :
        c \in Cells, col \in Palette, n \in 1..MaxEdits}

EmptyMap == [k \in {} |-> <<>>]

ClientIdle ==
    /\ localPixelData = <<>>
    /\ pendingUpdates = EmptyMap
    /\ handlerPending = EmptyMap
    /\ stateIsFirstMap = TRUE
    /\ submissions = {}
    /\ settled = {}
    /\ latestEdit = [c \in {} |-> 0]
    /\ edits = 0

\* the client after it loaded a blank canvas and opened its socket.
\* connectWebSocket is memoised on [wsConnection, reconnectAttempts], so the
\* instance the effect calls is the one of the first render: its onmessage
\* calls the handleRemotePixelUpdate of that render, whose pendingUpdates is
\* the Map object useState was given.  (With one row the index y * width + x
\* is x for every width, the handler's first-render width included.)
ClientInit ==
    /\ localPixelData = Fill(canvasWidth * canvasHeight, DEFAULT_PIXEL_COLOR)
    /\ pendingUpdates = EmptyMap
    /\ handlerPending = EmptyMap
    /\ stateIsFirstMap = TRUE
    /\ submissions = {}
    /\ settled = {}
    /\ latestEdit = [c \in Cells |-> 0]
    /\ edits = 0

\* the user paints a cell: updateSinglePixel runs and calls the mutation.
\* Its updater prev => new Map(prev.set(key, color)) sets the key in the
\* previous state object too, before the copy becomes the state.
LocalEdit(x, y, color) ==
    /\ edits < MaxEdits
    /\ LET out == updateSinglePixel(localPixelData, pendingUpdates,
                                    canvasWidth, x, y, color)
       IN  /\ localPixelData' = out.data
           /\ pendingUpdates' = out.pending
    /\ handlerPending' = IF stateIsFirstMap
                         THEN MapSet(handlerPending, <<x, y>>, color)
                         ELSE handlerPending
    /\ stateIsFirstMap' = FALSE
    /\ edits' = edits + 1
    /\ submissions' = submissions \cup
           {[x |-> x, y |-> y, color |-> color, id |-> edits + 1]}
    /\ latestEdit' = [latestEdit EXCEPT ![<<x, y>>] = edits + 1]
    /\ UNCHANGED settled
    /\ UNCHANGED notClientVars

\* the mutation of a local edit succeeded
SubmitResolved(s) ==
    /\ s \in submissions
    /\ submissions' = submissions \ {s}
    /\ settled' = settled \cup {[id |-> s.id, outcome |-> "fulfilled"]}
    /\ pendingUpdates' = onUpdateResolved(pendingUpdates, <<s.x, s.y>>)
    /\ stateIsFirstMap' = FALSE
    /\ UNCHANGED <<localPixelData, handlerPending, latestEdit, edits>>
    /\ UNCHANGED notClientVars

\* the mutation of a local edit failed
SubmitRejected(s) ==
    /\ s \in submissions
    /\ submissions' = submissions \ {s}
    /\ settled' = settled \cup {[id |-> s.id, outcome |-> "rejected"]}
    /\ pendingUpdates' = onUpdateRejected(pendingUpdates, <<s.x, s.y>>)
    /\ stateIsFirstMap' = FALSE
    /\ UNCHANGED <<localPixelData, handlerPending, latestEdit, edits>>
    /\ UNCHANGED notClientVars

\* a PIXEL_UPDATE message arrives: the socket's handler tests and deletes
\* the key in the Map it closed over and, if the key was there, makes a copy
\* of that Map the pendingUpdates state
RemoteUpdate(x, y, color) ==
    /\ LET out == handleRemotePixelUpdate(localPixelData, handlerPending,
                                          canvasWidth, x, y, color)
       IN  /\ localPixelData' = out.data
           /\ handlerPending' = out.pending
           /\ pendingUpdates' = IF MapHas(handlerPending, <<x, y>>)
                                THEN out.pending ELSE pendingUpdates
    /\ stateIsFirstMap' = (stateIsFirstMap /\ ~MapHas(handlerPending, <<x, y>>))
    /\ UNCHANGED <<submissions, settled, latestEdit, edits>>
    /\ UNCHANGED notClientVars

\* a BATCH_UPDATE message arrives
RemoteBatch(pixels) ==
    /\ localPixelData' =
           handleRemoteBatchUpdate(localPixelData, canvasWidth, pixels, 1)
    /\ UNCHANGED <<pendingUpdates, handlerPending, stateIsFirstMap,
                   submissions, settled, latestEdit, edits>>
    /\ UNCHANGED notClientVars

ClientNext ==
    \/ \E c \in Cells, color \in Palette : LocalEdit(c[1], c[2], color)
    \/ \E s \in Submissions : SubmitResolved(s)
    \/ \E s \in Submissions : SubmitRejected(s)
    \/ \E c \in Cells, color \in Palette : RemoteUpdate(c[1], c[2], color)
    \/ \E pixels \in RemoteBatches : RemoteBatch(pixels)

----------------------------------------------------------------------------
(* Calls of resizePixelData on its own                                     *)

\* widths and heights, the 4 x 3 of the specification's example included
ResizeDims == ((1..MaxResizeDim) \X (1..MaxResizeDim)) \cup {<<4, 3>>}

\* the grid of n cells whose i-th cell has the colour '#i', every cell its own
LabelledGrid(n) == [i \in 1..n |-> <<"#">> \o IntToStr(i)]

\* the old grids of a width and height: the labelled one, and for grids of
\* at most MaxLen cells every grid over the palette and the filler colour
ResizeGrids(w, h) ==
    {LabelledGrid(w * h)} \cup
    (IF w * h <= MaxLen THEN [1..(w * h) -> Colors] ELSE {})

ResizeIdle ==
    resizeRun = [pc |-> "idle", oldPixels |-> <<>>, oldWidth |-> 0,
                 oldHeight |-> 0, newWidth |-> 0, newHeight |-> 0,
                 newPixels |-> <<>>]

ResizeInit ==
    \E old \in ResizeDims, new \in ResizeDims :
        \E grid \in ResizeGrids(old[1], old[2]) :
            resizeRun = [pc |-> "called", oldPixels |-> grid,
                         oldWidth |-> old[1], oldHeight |-> old[2],
                         newWidth |-> new[1], newHeight |-> new[2],
                         newPixels |-> <<>>]

\* resizePixelData returns
Resize ==
    /\ resizeRun.pc = "called"
    /\ resizeRun' = [resizeRun EXCEPT
           !.pc = "returned",
           !.newPixels = resizePixelData(resizeRun.oldPixels,
                             resizeRun.oldWidth, resizeRun.oldHeight,
                             resizeRun.newWidth, resizeRun.newHeight)]
    /\ UNCHANGED notResizeVars

ResizeNext == Resize

----------------------------------------------------------------------------
(* Calls of decompressPixelData on its own                                 *)

\* the parts a compressed string is made of: a bare colour, or a count, ':'
\* and a colour.  The counts 1..MaxCount make well-formed runs.
BareParts == [kind : {"bare"}, count : {<<>>}, color : Colors]

RunParts == [kind : {"run"}, count : {IntToStr(n) : n \in 1..MaxCount}, color : Colors]

\* runs whose count is zero, negative, not a number, or missing
MalformedParts ==
    [kind : {"run"}, count : {<<"0">>, <<"-", "1">>, <<"x">>, <<>>},
     color : {<<"A">>}]

\* the text of a part
PartText(part) ==
    IF part.kind = "bare" THEN part.color
    ELSE part.count \o <<":">> \o part.color

RECURSIVE PartTexts(_)
PartTexts(parts) ==
    IF Len(parts) = 0 THEN <<>>
    ELSE <<PartText(Head(parts))>> \o PartTexts(Tail(parts))

\* sequences of parts: the empty one stands for the empty string
DecodeInputs ==
    UNION {[1..n -> BareParts \cup RunParts \cup MalformedParts] : n \in 0..MaxParts}

\* expected lengths below, at and above the length of the expansions
ExpectedLengths == 0..(MaxLen + 1)

DecodeIdle ==
    decodeRun = [pc |-> "idle", parts |-> <<>>, compressed |-> <<>>,
                 expectedLength |-> 0, threw |-> "", pixels |-> <<>>]

DecodeInit ==
    \E parts \in DecodeInputs, n \in ExpectedLengths :
        decodeRun = [pc |-> "called", parts |-> parts,
                     compressed |-> Join(PartTexts(parts), "|"),
                     expectedLength |-> n, threw |-> "", pixels |-> <<>>]

\* decompressPixelData returns: it has no throw statement
Decode ==
    /\ decodeRun.pc = "called"
    /\ decodeRun' = [decodeRun EXCEPT
           !.pc = "returned",
           !.pixels = decompressPixelData(decodeRun.compressed,
                                          decodeRun.expectedLength)]
    /\ UNCHANGED notDecodeVars

DecodeNext == Decode

----------------------------------------------------------------------------
(* Runs of the channel: sockets open, drop and close, timeouts fire, the   *)
(* component unmounts                                                      *)

SocketIds == 1..MaxSockets

ChannelIdle ==
    /\ wsConnection = 0
    /\ reconnectAttempts = 0
    /\ isConnected = FALSE
    /\ mounted = FALSE
    /\ sockets = <<>>
    /\ timers = {}
    /\ delays = <<>>
    /\ reconnects = 0

\* the component is initialised and its effect has called connectWebSocket
ChannelInit ==
    /\ wsConnection = 1
    /\ reconnectAttempts = 0
    /\ isConnected = FALSE
    /\ mounted = TRUE
    /\ sockets = connectWebSocket(
                     [ws |-> 0, attempts |-> 0, connected |-> FALSE,
                      mounted |-> TRUE, sockets |-> <<>>],
                     [ws |-> 0, attempts |-> 0]).sockets
    /\ timers = {}
    /\ delays = <<>>
    /\ reconnects = 0

\* the state after a handler: what it left, rendered, with the effect run
Rendered(c) ==
    /\ LET r == useEffect(Channel, c)
       IN  /\ wsConnection' = r.ws
           /\ reconnectAttempts' = r.attempts
           /\ isConnected' = r.connected
           /\ sockets' = r.sockets
           /\ Len(r.sockets) <= MaxSockets
    /\ UNCHANGED mounted

\* the connection of a socket is established
SocketOpens(id) ==
    /\ id <= Len(sockets)
    /\ sockets[id].status = "connecting"
    /\ Rendered(onopen(Channel, id))
    /\ delays' = <<>>
    /\ reconnects' = Len(sockets') - Len(sockets)
    /\ UNCHANGED timers
    /\ UNCHANGED notChannelVars

\* the close event of socket id, clean or not
CloseEvent(id, wasClean) ==
    /\ Rendered(onclose(Channel, id))
    /\ IF SchedulesReconnect(sockets[id], wasClean)
       THEN /\ timers' = timers \cup
                    {[socket |-> id, delay |-> backoffDelay(sockets[id].attempts),
                      scopeWs |-> sockets[id].scopeWs,
                      attempts |-> sockets[id].attempts]}
            /\ delays' = Append(delays, backoffDelay(sockets[id].attempts))
       ELSE UNCHANGED <<timers, delays>>
    /\ reconnects' = reconnects + Len(sockets') - Len(sockets)
    /\ UNCHANGED notChannelVars

\* the connection of a socket fails or is lost
SocketDrops(id) ==
    /\ id <= Len(sockets)
    /\ sockets[id].status \in {"connecting", "open"}
    /\ CloseEvent(id, FALSE)

\* the close event of a socket the client closed
SocketClosed(id) ==
    /\ id <= Len(sockets)
    /\ sockets[id].status = "closing"
    /\ CloseEvent(id, sockets[id].clean)

\* a reconnect timeout fires: nothing ever clears it
TimerFires(id) ==
    /\ \E t \in timers :
           /\ t.socket = id
           /\ timers' = timers \ {t}
           /\ Rendered(onReconnectTimer(Channel, t))
    /\ reconnects' = reconnects + Len(sockets') - Len(sockets)
    /\ UNCHANGED delays
    /\ UNCHANGED notChannelVars

\* the component unmounts: the cleanup of the effect closes wsConnection
Unmount ==
    /\ mounted
    /\ mounted' = FALSE
    /\ sockets' = IF wsConnection # 0 THEN closeSocket(sockets, wsConnection)
                  ELSE sockets
    /\ UNCHANGED <<wsConnection, reconnectAttempts, isConnected, timers,
                   delays, reconnects>>
    /\ UNCHANGED notChannelVars

ChannelNext ==
    \/ \E id \in SocketIds : SocketOpens(id)
    \/ \E id \in SocketIds : SocketDrops(id)
    \/ \E id \in SocketIds : SocketClosed(id)
    \/ \E id \in SocketIds : TimerFires(id)
    \/ Unmount

----------------------------------------------------------------------------
(* Runs of the fallback timer: time passes, messages arrive on the         *)
(* channel, the interval fires                                             *)

\* the clock moves in steps of a third of the window
Tick == FALLBACK_WINDOW \div 3

SyncIdle ==
    /\ now = 0
    /\ lastServerSync = 0
    /\ fallbackDue = 0
    /\ fallbackLogs = 0
    /\ canvasQueries = 0

\* lastServerSync is Date.now() of the mount; the canvas is read once and
\* the client is initialised a tick or two later, which starts the interval
SyncInit ==
    /\ now \in {Tick, 2 * Tick}
    /\ lastServerSync = 0
    /\ fallbackDue = now + FALLBACK_INTERVAL
    /\ fallbackLogs = 0
    /\ canvasQueries = 1

\* time passes up to the moment the interval is due
TimePasses ==
    /\ now + Tick <= fallbackDue
    /\ now + Tick <= MaxTicks * Tick
    /\ now' = now + Tick
    /\ UNCHANGED <<lastServerSync, fallbackDue, fallbackLogs, canvasQueries>>
    /\ UNCHANGED notSyncVars

\* ws.onmessage ends with setLastServerSync(Date.now()), also after
\* handleSyncRequest set it to 0; the effect depends on lastServerSync, so
\* a new value clears the interval and starts another
ChannelMessage ==
    /\ lastServerSync' = now
    /\ lastServerSync' # lastServerSync
    /\ fallbackDue' = now + FALLBACK_INTERVAL
    /\ UNCHANGED <<now, fallbackLogs, canvasQueries>>
    /\ UNCHANGED notSyncVars

\* the interval fires and runs its callback
FallbackTick ==
    /\ now = fallbackDue
    /\ now + FALLBACK_INTERVAL <= (MaxTicks + 3) * Tick
    /\ LET r == fallbackSync(now, lastServerSync, fallbackLogs, canvasQueries)
       IN  /\ fallbackLogs' = r.logs
           /\ canvasQueries' = r.queries
    /\ fallbackDue' = fallbackDue + FALLBACK_INTERVAL
    /\ UNCHANGED <<now, lastServerSync>>
    /\ UNCHANGED notSyncVars

SyncNext ==
    \/ TimePasses
    \/ ChannelMessage
    \/ FallbackTick

----------------------------------------------------------------------------
(* Runs of the client against the store: local edits are persisted by      *)
(* updatePixel or fail, the fallback interval fires, the socket drops and  *)
(* is opened again                                                         *)

\* the client has loaded the blank canvas the store holds, its interval
\* runs and its socket is connecting
HealInit ==
    /\ ClientInit /\ SyncInit /\ ChannelInit
    /\ env = <<canvasWidth, canvasHeight>>
    /\ db = ApplyWrites(<<>>, initializeCanvas(<<>>, env).writes)
    /\ envChanges = 0
    /\ tx = [p \in Procs |-> IdleTx]
    /\ calls = 0

\* the updatePixel mutation of a local edit commits in the store and its
\* promise resolves in the client
Persisted(s) ==
    /\ s \in submissions
    /\ db' = ApplyWrites(db, updatePixel(db, env,
                 [x |-> s.x, y |-> s.y, color |-> s.color]).writes)
    /\ submissions' = submissions \ {s}
    /\ settled' = settled \cup {[id |-> s.id, outcome |-> "fulfilled"]}
    /\ pendingUpdates' = onUpdateResolved(pendingUpdates, <<s.x, s.y>>)
    /\ stateIsFirstMap' = FALSE
    /\ UNCHANGED <<localPixelData, handlerPending, latestEdit, edits>>
    /\ UNCHANGED <<env, envChanges, tx, calls>>
    /\ UNCHANGED <<codecVars, sparseVars, helperVars, channelVars, syncVars,
                   bootVars>>

\* the sockets of these runs: the first one and the one that replaces it
HealSockets == 1..2

HealNext ==
    \/ \E c \in Cells, color \in Palette : LocalEdit(c[1], c[2], color)
    \/ \E s \in Submissions : Persisted(s)
    \/ \E s \in Submissions : SubmitRejected(s)
    \/ TimePasses
    \/ FallbackTick
    \/ \E id \in HealSockets : SocketDrops(id)
    \/ \E id \in HealSockets : SocketOpens(id)

----------------------------------------------------------------------------
(* Runs of the bootstrap: the subscription delivers the value of           *)
(* getCanvas, the mutation the effect awaits commits and its promise       *)
(* resolves, the timeout that ends the loading screen fires                *)

BootIdle == boot = BootStart

\* the records a client can find: none, or one made by initializeCanvas at
\* some size and perhaps painted at its first cell
BootStores ==
    {<<>>}
    \cup {ApplyWrites(<<>>, initializeCanvas(<<>>, size).writes) : size \in Sizes}
    \cup {LET made == ApplyWrites(<<>>, initializeCanvas(<<>>, size).writes)
          IN  ApplyWrites(made,
                  updatePixel(made, size, [x |-> 0, y |-> 0, color |-> c]).writes) :
              size \in Sizes, c \in Palette}

BootInit ==
    /\ boot = BootStart
    /\ env \in Sizes
    /\ db \in BootStores
    /\ envChanges = 0
    /\ tx = [p \in Procs |-> IdleTx]
    /\ calls = 0

\* the variables a step of the bootstrap leaves alone
notBootVars == <<pendingUpdates, handlerPending, stateIsFirstMap, submissions,
                 settled, latestEdit, edits, env, envChanges, calls,
                 codecVars, sparseVars, helperVars, channelVars, syncVars>>

\* the state after a handler changed it: the effect runs initCanvas
BootRendered(b) ==
    LET out == initCanvas(b, localPixelData)
    IN  /\ boot' = out.b
        /\ localPixelData' = out.pixels

\* the subscription delivers the present value of getCanvas
QueryDelivers ==
    /\ boot.initialCanvasData # <<getCanvas(db, env).value>>
    /\ BootRendered([boot EXCEPT
           !.initialCanvasData = <<getCanvas(db, env).value>>])
    /\ UNCHANGED <<db, tx>>
    /\ UNCHANGED notBootVars

\* the mutation the effect awaits commits in the store
MutationCommits ==
    /\ boot.awaiting \in {"initializeCanvas", "resizeCanvas"}
    /\ tx["p1"].pc = "idle"
    /\ db' = ApplyWrites(db,
                 IF boot.awaiting = "initializeCanvas"
                 THEN initializeCanvas(db, env).writes
                 ELSE resizeCanvas(db, env).writes)
    /\ tx' = [tx EXCEPT !["p1"].pc = "done", !["p1"].op = boot.awaiting]
    /\ UNCHANGED <<boot, localPixelData>>
    /\ UNCHANGED notBootVars

\* the promise of the committed mutation resolves: initCanvas goes on after
\* its await.  The new value of getCanvas may have been delivered, and the
\* effect run on it, before this or not yet
MutationResolves ==
    /\ boot.awaiting # ""
    /\ tx["p1"].pc = "done"
    /\ BootRendered(IF boot.awaiting = "initializeCanvas"
                    THEN afterInitializeCanvas(boot)
                    ELSE afterResizeCanvas(boot))
    /\ tx' = [tx EXCEPT !["p1"] = IdleTx]
    /\ UNCHANGED db
    /\ UNCHANGED notBootVars

\* the timeout of 500 ms fires: setIsLoading(false)
LoadTimerFires ==
    /\ boot.loadTimer
    /\ boot' = [boot EXCEPT !.loadTimer = FALSE, !.isLoading = FALSE]
    /\ UNCHANGED <<localPixelData, db, tx>>
    /\ UNCHANGED notBootVars

BootNext ==
    \/ QueryDelivers
    \/ MutationCommits
    \/ MutationResolves
    \/ LoadTimerFires

----------------------------------------------------------------------------
(* Specifications                                                          *)

\* the codec alone
InitCodec ==
    CodecInit /\ StoreIdle /\ SparseIdle /\ ClientIdle /\ ResizeIdle /\ DecodeIdle /\
    ChannelIdle /\ SyncIdle /\ BootIdle

SpecCodec == InitCodec /\ [][CodecNext]_vars

\* the canvas store of convex/functions.ts, one caller at a time
Init ==
    StoreInit /\ CodecIdle /\ SparseIdle /\ ClientIdle /\ ResizeIdle /\ DecodeIdle /\
    ChannelIdle /\ SyncIdle /\ BootIdle

Spec == Init /\ [][StoreNext]_vars

\* the canvas store under two concurrent callers
InitConc ==
    ConcInit /\ CodecIdle /\ SparseIdle /\ ClientIdle /\ ResizeIdle /\ DecodeIdle /\
    ChannelIdle /\ SyncIdle /\ BootIdle

\* the per-pixel backend
InitBatch ==
    /\ SparseInit /\ CodecIdle /\ ClientIdle /\ ResizeIdle /\ DecodeIdle
    /\ ChannelIdle /\ SyncIdle /\ BootIdle
    /\ db = <<>> /\ envChanges = 0 /\ calls = 0
    /\ tx = [p \in Procs |-> IdleTx]

SpecBatch == InitBatch /\ [][SparseNext]_vars

\* the client reconciler
InitClient ==
    ClientInit /\ CodecIdle /\ StoreIdle /\ SparseIdle /\ ResizeIdle /\ DecodeIdle /\
    ChannelIdle /\ SyncIdle /\ BootIdle

SpecClient == InitClient /\ [][ClientNext]_vars

SpecConc == InitConc /\ [][ConcNext]_vars

\* resizePixelData alone
InitResize ==
    ResizeInit /\ DecodeIdle /\ CodecIdle /\ StoreIdle /\ SparseIdle /\ ClientIdle /\
    ChannelIdle /\ SyncIdle /\ BootIdle

SpecResize == InitResize /\ [][ResizeNext]_vars

\* the channel of the client
InitChannel ==
    /\ ChannelInit
    /\ CodecIdle /\ StoreIdle /\ SparseIdle /\ ClientIdle /\ ResizeIdle /\ DecodeIdle
    /\ SyncIdle /\ BootIdle

SpecChannel == InitChannel /\ [][ChannelNext]_vars

\* the fallback timer of the client
InitSync ==
    /\ SyncInit
    /\ CodecIdle /\ StoreIdle /\ SparseIdle /\ ClientIdle /\ ResizeIdle /\ DecodeIdle
    /\ ChannelIdle /\ BootIdle

SpecSync == InitSync /\ [][SyncNext]_vars

\* the client against the store; every call settles, the clock runs, the
\* interval fires, and a socket that can open or drop does
InitHeal ==
    /\ HealInit
    /\ CodecIdle /\ SparseIdle /\ ResizeIdle /\ DecodeIdle /\ BootIdle

SpecHeal ==
    /\ InitHeal /\ [][HealNext]_vars
    /\ WF_vars(\E s \in Submissions : SubmitRejected(s) \/ Persisted(s))
    /\ WF_vars(TimePasses)
    /\ WF_vars(FallbackTick)
    /\ WF_vars(\E id \in HealSockets : SocketDrops(id))
    /\ WF_vars(\E id \in HealSockets : SocketOpens(id))

\* the bootstrap of the client; every query and mutation returns and the
\* timeout fires
InitBoot ==
    /\ BootInit
    /\ CodecIdle /\ SparseIdle /\ ClientIdle /\ ResizeIdle /\ DecodeIdle
    /\ ChannelIdle /\ SyncIdle

SpecBoot == InitBoot /\ [][BootNext]_vars /\ WF_vars(BootNext)

\* decompressPixelData alone
InitDecode ==
    DecodeInit /\ ResizeIdle /\ CodecIdle /\ StoreIdle /\ SparseIdle /\ ClientIdle /\
    ChannelIdle /\ SyncIdle /\ BootIdle

SpecDecode == InitDecode /\ [][DecodeNext]_vars

----------------------------------------------------------------------------
(* C4: codec round trip.  For every non-empty array of palette colours,    *)
(* runs longer than 999 included, decompressing what compressPixelData     *)
(* returned, at the array's own length, gives the array back.              *)
C4_RoundTrip == cPc = "decompressed" => cOut = cPixels

\* a round trip of an array with a run longer than the cap has completed
C4_Witness ==
    /\ cPc = "decompressed"
    /\ Len(cPixels) > MAX_RUN_LENGTH
    /\ cOut = cPixels
    /\ Len(Split(cCompressed, "|")) >= 2

----------------------------------------------------------------------------
(* Reading the stored record                                               *)

\* the stored size and the grid the stored string expands to at that size
StoredGrid(table) ==
    LET stored == extractSizeFromCompressed(table[1])
    IN  [width |-> stored.width, height |-> stored.height,
         pixels |-> decompressPixelData(stored.compressed,
                                        stored.width * stored.height)]

\* the colour of cell (x, y) of a row-major grid g
CellOf(g, x, y) == g.pixels[y * g.width + x + 1]

InBounds(x, y, size) == x >= 0 /\ x < size[1] /\ y >= 0 /\ y < size[2]

\* caller p has completed a successful updatePixel of an in-bounds cell
PaintedOk(p) ==
    /\ tx[p].pc = "done"
    /\ tx[p].op = "updatePixel"
    /\ tx[p].threw = ""
    /\ tx[p].args.color \in Palette
    /\ InBounds(tx[p].args.x, tx[p].args.y, tx[p].size)

----------------------------------------------------------------------------
(* C1: two updatePixel calls with valid colours and distinct in-bounds     *)
(* coordinates, issued concurrently against one record: once both have     *)
(* completed, the stored grid holds both written colours.                  *)
C1_NoLostUpdate ==
    \A p, q \in Procs :
        (/\ p # q
         /\ PaintedOk(p) /\ PaintedOk(q)
         /\ tx[p].epoch = envChanges /\ tx[q].epoch = envChanges
         /\ <<tx[p].args.x, tx[p].args.y>> # <<tx[q].args.x, tx[q].args.y>>)
        => /\ Len(db) = 1
           /\ CellOf(StoredGrid(db), tx[p].args.x, tx[p].args.y) = tx[p].args.color
           /\ CellOf(StoredGrid(db), tx[q].args.x, tx[q].args.y) = tx[q].args.color

\* both calls completed, and one of them had read the record before the
\* other one's write and was run again
C1_Witness ==
    \E p, q \in Procs :
        /\ p # q
        /\ PaintedOk(p) /\ PaintedOk(q)
        /\ tx[p].epoch = envChanges /\ tx[q].epoch = envChanges
        /\ <<tx[p].args.x, tx[p].args.y>> # <<tx[q].args.x, tx[q].args.y>>
        /\ tx[p].args.color # tx[q].args.color
        /\ tx[q].retried
        /\ CellOf(StoredGrid(db), tx[p].args.x, tx[p].args.y) = tx[p].args.color
        /\ CellOf(StoredGrid(db), tx[q].args.x, tx[q].args.y) = tx[q].args.color

----------------------------------------------------------------------------
(* C5: updatePixel with a colour that is not in the palette reports an     *)
(* invalid-colour error and leaves the stored record as it was, for every  *)
(* stored state and every (x, y).                                          *)
C5_InvalidColorRejected ==
    [][\A p \in Procs :
          (/\ Commit(p)
           /\ tx[p].op = "updatePixel"
           /\ tx[p].args.color \notin Palette)
          => (db' = db /\ tx'[p].threw = "Invalid color")]_vars

\* an invalid-colour updatePixel of an in-bounds cell of an existing record
\* has been rejected
C5_Witness ==
    \E p \in Procs :
        /\ tx[p].pc = "done"
        /\ tx[p].op = "updatePixel"
        /\ tx[p].args.color \notin Palette
        /\ tx[p].threw = "Invalid color"
        /\ Len(db) = 1
        /\ InBounds(tx[p].args.x, tx[p].args.y, tx[p].size)

----------------------------------------------------------------------------
(* C6: updatePixel with a valid colour fails with an out-of-bounds error   *)
(* whenever x < 0, x >= width, y < 0 or y >= height of the configured      *)
(* size, and then no cell of the stored grid changes.                      *)
C6_OutOfBoundsRejected ==
    [][\A p \in Procs :
          (/\ Commit(p)
           /\ tx[p].op = "updatePixel"
           /\ tx[p].args.color \in Palette
           /\ Len(db) = 1
           /\ ~InBounds(tx[p].args.x, tx[p].args.y, tx[p].size))
          => (db' = db /\ tx'[p].threw # "")]_vars

----------------------------------------------------------------------------
(* C9 as stated: with stored dimensions different from the configured      *)
(* ones getCanvas returns the stored width and height, the cells decoded   *)
(* at the stored size and needsResize = true; with equal dimensions it     *)
(* returns needsResize = false.                                            *)
C9_ReturnsStoredView ==
    \A p \in Procs :
        (tx[p].pc = "done" /\ tx[p].op = "getCanvas" /\ Len(db) = 1)
        => LET g == StoredGrid(db)
               v == tx[p].value
           IN  IF g.width # tx[p].size[1] \/ g.height # tx[p].size[2]
               THEN /\ v.needsResize
                    /\ v.width = g.width /\ v.height = g.height
                    /\ v.pixels = g.pixels
               ELSE ~v.needsResize

(* C9 amended: with different dimensions getCanvas returns the configured  *)
(* width and height, and configured-width * configured-height cells: the   *)
(* stored cell (x, y) wherever (x, y) lies inside both extents, the filler *)
(* colour elsewhere, with needsResize = true; with equal dimensions it     *)
(* returns the stored cells and needsResize = false.                       *)
C9_ReturnsResizedView ==
    \A p \in Procs :
        (tx[p].pc = "done" /\ tx[p].op = "getCanvas" /\ Len(db) = 1)
        => LET g == StoredGrid(db)
               v == tx[p].value
               w == tx[p].size[1]
               h == tx[p].size[2]
           IN  /\ v.width = w /\ v.height = h
               /\ Len(v.pixels) = w * h
               /\ v.needsResize = (g.width # w \/ g.height # h)
               /\ \A x \in 0..(w - 1), y \in 0..(h - 1) :
                     v.pixels[y * w + x + 1] =
                        IF x < g.width /\ y < g.height THEN CellOf(g, x, y)
                        ELSE DEFAULT_PIXEL_COLOR

\* getCanvas has returned for a painted record stored narrower and taller
\* than the configured size
C9_Witness ==
    \E p \in Procs :
        /\ tx[p].pc = "done" /\ tx[p].op = "getCanvas" /\ Len(db) = 1
        /\ StoredGrid(db).width < tx[p].size[1]
        /\ StoredGrid(db).height > tx[p].size[2]
        /\ tx[p].value.needsResize
        /\ \E i \in 1..Len(tx[p].value.pixels) :
              tx[p].value.pixels[i] \in Palette

----------------------------------------------------------------------------
(* C10: getCanvas never mutates state: the stored record after it equals   *)
(* the one before it, whether there is no record, a record at the          *)
(* configured size or one at another size; and a getCanvas that has been   *)
(* started can always return, whatever mutations are in progress.          *)
C10_QueryReadOnly ==
    [][/\ \A p \in Procs :
            (tx[p].pc = "running" /\ tx[p].op = "getCanvas")
            => CanCommit(p)
       /\ \A p \in Procs :
            (Commit(p) /\ tx[p].op = "getCanvas") => db' = db]_vars

\* a getCanvas that saw a resize pending has returned while the other
\* caller's mutation is in progress, and the record is still the stored one
C10_Witness ==
    \E p, q \in Procs :
        /\ tx[p].pc = "done" /\ tx[p].op = "getCanvas"
        /\ tx[p].value.null = FALSE
        /\ tx[p].value.needsResize
        /\ tx[q].pc = "running" /\ ~IsQuery(tx[q].op)
        /\ Len(db) = 1
        /\ StoredGrid(db).width # tx[p].size[1]

----------------------------------------------------------------------------
(* Reading a batch                                                         *)

\* some entry of the batch has a colour outside the palette
HasInvalidColor(pixels) ==
    \E i \in 1..Len(pixels) : pixels[i].color \notin Palette

\* the positions of the in-bounds entries of a batch that target (x, y)
HitsOf(pixels, size, x, y) ==
    {i \in 1..Len(pixels) :
        pixels[i].x = x /\ pixels[i].y = y /\ InBounds(x, y, size)}

Max(S) == CHOOSE n \in S : \A m \in S : m <= n

----------------------------------------------------------------------------
(* C7: updatePixels with a batch holding at least one colour outside the   *)
(* palette fails with an invalid-colour error and leaves the store         *)
(* unchanged: no entry is applied, the valid ones before the invalid one   *)
(* included.                                                               *)
C7_InvalidColorRejectsBatch ==
    (lastBatch.called /\ HasInvalidColor(lastBatch.pixels))
    => (lastBatch.threw = "Invalid color" /\ pixelDocs = lastBatch.before)

\* a batch was rejected whose first entry is valid, in bounds and would
\* have changed the store
C7_Witness ==
    /\ lastBatch.called
    /\ Len(lastBatch.pixels) >= 2
    /\ lastBatch.pixels[1].color \in Palette
    /\ InBounds(lastBatch.pixels[1].x, lastBatch.pixels[1].y, env)
    /\ getPixel(lastBatch.before, lastBatch.pixels[1].x, lastBatch.pixels[1].y)
          # lastBatch.pixels[1].color
    /\ lastBatch.pixels[2].color \notin Palette
    /\ lastBatch.threw = "Invalid color"

----------------------------------------------------------------------------
(* C8: updatePixels with a batch of valid colours that holds out-of-bounds *)
(* entries succeeds: every in-bounds entry is applied (the last one for a  *)
(* cell wins), every out-of-bounds entry is skipped and changes no cell.   *)
C8_OutOfBoundsSkipped ==
    (lastBatch.called /\ ~HasInvalidColor(lastBatch.pixels))
    => /\ lastBatch.threw = ""
       /\ \A d \in pixelDocs : InBounds(d.x, d.y, env)
       /\ \A x \in Coords, y \in Coords :
             LET hits == HitsOf(lastBatch.pixels, env, x, y)
             IN  getPixel(pixelDocs, x, y) =
                    IF hits = {} THEN getPixel(lastBatch.before, x, y)
                    ELSE lastBatch.pixels[Max(hits)].color

\* a batch succeeded in which an out-of-bounds entry precedes an in-bounds
\* entry that changed its cell
C8_Witness ==
    /\ lastBatch.called
    /\ lastBatch.threw = ""
    /\ Len(lastBatch.pixels) >= 2
    /\ ~InBounds(lastBatch.pixels[1].x, lastBatch.pixels[1].y, env)
    /\ InBounds(lastBatch.pixels[2].x, lastBatch.pixels[2].y, env)
    /\ getPixel(lastBatch.before, lastBatch.pixels[2].x, lastBatch.pixels[2].y)
          # lastBatch.pixels[2].color
    /\ getPixel(pixelDocs, lastBatch.pixels[2].x, lastBatch.pixels[2].y)
          = lastBatch.pixels[2].color

----------------------------------------------------------------------------
(* C2: from the moment a local edit of a cell is applied until the         *)
(* submission of that edit completes, the cell shows the most recent       *)
(* locally applied colour, whatever remote edits arrive for it.            *)
C2_LocalEditWins ==
    \A s \in submissions :
        s.id = latestEdit[<<s.x, s.y>>]
        => localPixelData[s.y * canvasWidth + s.x + 1] = s.color

----------------------------------------------------------------------------
(* C3: when the submission of a local edit (x, y, c1) succeeds, a pending  *)
(* entry of (x, y) whose colour is another c2, set by a newer local edit,  *)
(* is still present afterwards: the entry is removed only if its colour    *)
(* is still c1.                                                            *)
C3_NewerPendingKept ==
    [][\A s \in submissions :
          (/\ SubmitResolved(s)
           /\ MapHas(pendingUpdates, <<s.x, s.y>>)
           /\ pendingUpdates[<<s.x, s.y>>] # s.color)
          => (/\ MapHas(pendingUpdates', <<s.x, s.y>>)
              /\ pendingUpdates'[<<s.x, s.y>>] = pendingUpdates[<<s.x, s.y>>])]_vars

----------------------------------------------------------------------------
(* C11: initializeCanvas is idempotent.  When a record already exists,     *)
(* whatever its contents or stored size, the call returns that record's    *)
(* identity and leaves the table as it was; so any number of consecutive   *)
(* calls leave the store as one call does.                                 *)
C11_InitializeIdempotent ==
    [][(/\ Commit("p1")
        /\ tx["p1"].op = "initializeCanvas"
        /\ Len(db) > 0)
       => (/\ db' = db
           /\ tx'["p1"].threw = ""
           /\ tx'["p1"].value = [id |-> 1])]_vars

\* initializeCanvas has returned on a record that was painted before the
\* call and whose stored size is not the configured one
C11_Witness ==
    /\ tx["p1"].pc = "done"
    /\ tx["p1"].op = "initializeCanvas"
    /\ tx["p1"].value = [id |-> 1]
    /\ Len(db) = 1
    /\ \E c \in Palette : \E i \in 1..Len(StoredGrid(db).pixels) :
           StoredGrid(db).pixels[i] = c
    /\ <<StoredGrid(db).width, StoredGrid(db).height>> # env

----------------------------------------------------------------------------
(* C12: in every reachable state, after any interleaving of                *)
(* initializeCanvas, resizeCanvas, updatePixel and getCanvas calls,        *)
(* concurrent initializeCanvas calls that all observed "no record"         *)
(* included, at most one canvas record exists.                             *)
C12_AtMostOneRecord == Len(db) <= 1

\* two initializeCanvas calls both read the empty table; one committed its
\* insert, the other was run again and returned the record it then found
C12_Witness ==
    /\ \A p \in Procs : tx[p].pc = "done" /\ tx[p].op = "initializeCanvas"
    /\ \E p \in Procs : tx[p].retried
    /\ Len(db) = 1

----------------------------------------------------------------------------
(* C13: resizePixelData(old, oldW, oldH, newW, newH) returns exactly       *)
(* newW * newH cells; cell (x, y) of the result is cell (x, y) of the old  *)
(* grid when x < min(oldW, newW) and y < min(oldH, newH), and the default  *)
(* colour otherwise.  (2,2) -> (4,3) of [1,2,3,4] gives                    *)
(* [1,2,d,d, 3,4,d,d, d,d,d,d] and (3,2) -> (2,1) of [1..6] gives [1,2].   *)
C13_ResizeTopLeft ==
    resizeRun.pc = "returned" =>
        LET r == resizeRun
            d == DEFAULT_PIXEL_COLOR
        IN  /\ Len(r.newPixels) = r.newWidth * r.newHeight
            /\ \A x \in 0..(r.newWidth - 1), y \in 0..(r.newHeight - 1) :
                   r.newPixels[y * r.newWidth + x + 1] =
                       IF x < r.oldWidth /\ y < r.oldHeight
                       THEN r.oldPixels[y * r.oldWidth + x + 1]
                       ELSE d
            /\ (/\ r.oldPixels = LabelledGrid(4)
                /\ <<r.oldWidth, r.oldHeight, r.newWidth, r.newHeight>> = <<2, 2, 4, 3>>)
               => r.newPixels = << <<"#", "1">>, <<"#", "2">>, d, d,
                                   <<"#", "3">>, <<"#", "4">>, d, d,
                                   d, d, d, d >>
            /\ (/\ r.oldPixels = LabelledGrid(6)
                /\ <<r.oldWidth, r.oldHeight, r.newWidth, r.newHeight>> = <<3, 2, 2, 1>>)
               => r.newPixels = << <<"#", "1">>, <<"#", "2">> >>

\* resizePixelData has returned for a grid that grows in one direction and
\* shrinks in the other, every cell of which has its own colour
C13_Witness ==
    /\ resizeRun.pc = "returned"
    /\ resizeRun.oldPixels = LabelledGrid(6)
    /\ <<resizeRun.oldWidth, resizeRun.oldHeight>> = <<3, 2>>
    /\ <<resizeRun.newWidth, resizeRun.newHeight>> = <<2, 3>>

----------------------------------------------------------------------------
(* C14: resizeCanvas called when the stored dimensions already equal the   *)
(* configured ones reports resized: false and leaves the stored record     *)
(* unchanged; hence a second resizeCanvas right after one that resized is  *)
(* a no-op.                                                                *)
C14_ResizeNoOp ==
    [][(Commit("p1") /\ tx["p1"].op = "resizeCanvas" /\ Len(db) > 0)
       => /\ (<<StoredGrid(db).width, StoredGrid(db).height>> = tx["p1"].size)
              => (/\ db' = db
                  /\ tx'["p1"].threw = ""
                  /\ tx'["p1"].value = [resized |-> FALSE])
          /\ (tx'["p1"].value = [resized |-> TRUE])
              => resizeCanvas(db', tx["p1"].size)
                     = Returned([resized |-> FALSE], NoWrite)]_vars

\* resizeCanvas has reported resized: false on a painted record
C14_Witness ==
    /\ tx["p1"].pc = "done"
    /\ tx["p1"].op = "resizeCanvas"
    /\ tx["p1"].value = [resized |-> FALSE]
    /\ Len(db) = 1
    /\ \E c \in Palette : \E i \in 1..Len(StoredGrid(db).pixels) :
           StoredGrid(db).pixels[i] = c

----------------------------------------------------------------------------
(* C15: every token compressPixelData produces is a bare colour (count 1)  *)
(* or a run token whose count lies in 2..999; no token has a count over    *)
(* 999.  A run of 1500 equal colours is emitted as two run tokens, which   *)
(* decompress to 1500 equal colours.                                       *)
C15_RunCountCapped ==
    /\ cPc \in {"compressed", "decompressed"} =>
           LET tokens == Split(cCompressed, "|")
           IN  /\ \A k \in 1..Len(tokens) :
                      IF Includes(tokens[k], ":")
                      THEN LET pieces == Split(tokens[k], ":")
                               count  == parseInt(pieces[1])
                           IN  /\ Len(pieces) = 2
                               /\ ~count.nan
                               /\ count.val >= 2 /\ count.val <= 999
                               /\ pieces[1] = IntToStr(count.val)
                               /\ pieces[2] \in Colors
                      ELSE tokens[k] \in Colors
               /\ cPixels = Fill(1500, <<"A">>)
                  => cCompressed = <<"9", "9", "9", ":", "A", "|",
                                     "5", "0", "1", ":", "A">>
    /\ (cPc = "decompressed" /\ cPixels = Fill(1500, <<"A">>))
       => cOut = Fill(1500, <<"A">>)

\* an array of 1500 equal colours has been compressed and decompressed
C15_Witness ==
    /\ cPc = "decompressed"
    /\ cPixels = Fill(1500, <<"A">>)
    /\ Len(Split(cCompressed, "|")) = 2

----------------------------------------------------------------------------
(* Reading a compressed string by its parts                                *)

\* a part is well formed: a bare colour, or a run with a positive count
WellFormedPart(part) ==
    part.kind = "bare" \/ \E n \in 1..MaxCount : part.count = IntToStr(n)

\* the cells a well-formed part stands for
PartCells(part) ==
    IF part.kind = "bare" THEN <<part.color>>
    ELSE Fill(CHOOSE n \in 1..MaxCount : part.count = IntToStr(n), part.color)

RECURSIVE Expansion(_)
\* the cells a sequence of well-formed parts stands for
Expansion(parts) ==
    IF Len(parts) = 0 THEN <<>>
    ELSE PartCells(Head(parts)) \o Expansion(Tail(parts))

----------------------------------------------------------------------------
(* C16: for every well-formed string s and every n >= 0,                   *)
(* decompressPixelData(s, n) returns exactly n entries, the first n of the *)
(* expansion of s followed by default colours: a shorter expansion is      *)
(* padded on the right, a longer one cut, and "" gives n default colours.  *)
C16_DecodePadsAndCuts ==
    (/\ decodeRun.pc = "returned"
     /\ \A k \in 1..Len(decodeRun.parts) : WellFormedPart(decodeRun.parts[k]))
    => LET n     == decodeRun.expectedLength
           cells == Expansion(decodeRun.parts)
       IN  /\ Len(decodeRun.pixels) = n
           /\ \A i \in 1..n :
                  decodeRun.pixels[i] =
                      IF i <= Len(cells) THEN cells[i] ELSE DEFAULT_PIXEL_COLOR

\* a well-formed string of a run and a bare colour has been decompressed
\* to more cells than it expands to
C16_Witness ==
    /\ decodeRun.pc = "returned"
    /\ Len(decodeRun.parts) = 2
    /\ \A k \in 1..2 : WellFormedPart(decodeRun.parts[k])
    /\ decodeRun.parts[1].kind = "run" /\ decodeRun.parts[2].kind = "bare"
    /\ decodeRun.expectedLength > Len(Expansion(decodeRun.parts))

----------------------------------------------------------------------------
(* C17: decompressPixelData fails with a MalformedRun error, and returns   *)
(* no grid, whenever some part of the string has the count separator and   *)
(* a count that is not a number or not positive.                           *)
C17_MalformedRunRejected ==
    (/\ decodeRun.pc = "returned"
     /\ \E k \in 1..Len(decodeRun.parts) : ~WellFormedPart(decodeRun.parts[k]))
    => decodeRun.threw = "MalformedRun"

----------------------------------------------------------------------------
(* C18: a PIXEL_UPDATE (x, y, c) arriving while (x, y) has a pending local *)
(* entry of another colour is ignored: it changes neither the shown colour *)
(* of (x, y) nor the pending entry, which stays until the local            *)
(* submission completes.                                                   *)
C18_DifferentRemoteIgnored ==
    [][\A cell \in Cells, c \in Palette :
          (/\ RemoteUpdate(cell[1], cell[2], c)
           /\ MapHas(pendingUpdates, cell)
           /\ pendingUpdates[cell] # c)
          => (/\ localPixelData' = localPixelData
              /\ MapHas(pendingUpdates', cell)
              /\ pendingUpdates'[cell] = pendingUpdates[cell])]_vars

----------------------------------------------------------------------------
(* C19: a PIXEL_UPDATE (x, y, c) arriving while (x, y) has a pending local *)
(* entry equal to c is the echo of the client's own edit: the pending      *)
(* entry of (x, y) is removed and no shown colour changes.                 *)
C19_EchoClearsPending ==
    [][\A cell \in Cells, c \in Palette :
          (/\ RemoteUpdate(cell[1], cell[2], c)
           /\ MapHas(pendingUpdates, cell)
           /\ pendingUpdates[cell] = c)
          => (/\ ~MapHas(pendingUpdates', cell)
              /\ localPixelData' = localPixelData)]_vars

----------------------------------------------------------------------------
(* C20: a PIXEL_UPDATE (x, y, c) for a cell without a pending local entry  *)
(* sets the shown colour of (x, y) to c at once and changes no other cell  *)
(* and no pending entry; so after a local edit was confirmed, a later      *)
(* remote edit of the same cell is applied.                                *)
C20_RemoteAppliedWhenNotPending ==
    [][\A cell \in Cells, c \in Palette :
          (/\ RemoteUpdate(cell[1], cell[2], c)
           /\ ~MapHas(pendingUpdates, cell))
          => (/\ localPixelData' =
                     [localPixelData EXCEPT ![cell[2] * canvasWidth + cell[1] + 1] = c]
              /\ pendingUpdates' = pendingUpdates)]_vars

----------------------------------------------------------------------------
(* Applying the entries of a batch one by one                              *)

RECURSIVE ApplyRemoteEach(_, _, _)
\* the client after handleRemotePixelUpdate ran for entry i of pixels and
\* every later one, c being the client before: its grid, the Map of the
\* socket's handler and the pendingUpdates state
ApplyRemoteEach(c, pixels, i) ==
    IF i > Len(pixels) THEN c
    ELSE LET e   == pixels[i]
             out == handleRemotePixelUpdate(c.data, c.handler, canvasWidth,
                                            e.x, e.y, e.color)
         IN  ApplyRemoteEach(
                 [data |-> out.data, handler |-> out.pending,
                  state |-> IF MapHas(c.handler, <<e.x, e.y>>)
                            THEN out.pending ELSE c.state],
                 pixels, i + 1)

----------------------------------------------------------------------------
(* C21: a BATCH_UPDATE leaves the client (shown cells and pending map) as  *)
(* a PIXEL_UPDATE for each of its entries, in order, would; so an entry    *)
(* for a cell with a pending local entry of another colour does not        *)
(* overwrite the shown colour of that cell.                                *)
C21_BatchAsSingles ==
    [][\A pixels \in RemoteBatches :
          RemoteBatch(pixels) =>
              LET each == ApplyRemoteEach(
                              [data |-> localPixelData,
                               handler |-> handlerPending,
                               state |-> pendingUpdates], pixels, 1)
              IN  /\ localPixelData' = each.data
                  /\ pendingUpdates' = each.state
                  /\ \A cell \in Cells :
                         (/\ MapHas(pendingUpdates, cell)
                          /\ \A i \in 1..Len(pixels) :
                                 <<pixels[i].x, pixels[i].y>> = cell
                                 => pixels[i].color # pendingUpdates[cell])
                         => localPixelData'[cell[2] * canvasWidth + cell[1] + 1]
                                = localPixelData[cell[2] * canvasWidth + cell[1] + 1]]_vars

----------------------------------------------------------------------------
(* C22: a local edit (x, y, c) at once, before its submission completes,   *)
(* shows c at (x, y) and sets pending[(x, y)] = c, and changes no other    *)
(* shown cell and no other pending entry.                                  *)
C22_LocalEditApplied ==
    [][\A cell \in Cells, c \in Palette :
          LocalEdit(cell[1], cell[2], c) =>
              /\ localPixelData' =
                     [localPixelData EXCEPT ![cell[2] * canvasWidth + cell[1] + 1] = c]
              /\ DOMAIN pendingUpdates' = DOMAIN pendingUpdates \cup {cell}
              /\ pendingUpdates'[cell] = c
              /\ \A k \in DOMAIN pendingUpdates \ {cell} :
                     pendingUpdates'[k] = pendingUpdates[k]
              /\ \E s \in submissions' \ submissions :
                     s.x = cell[1] /\ s.y = cell[2] /\ s.color = c]_vars

\* two cells were painted in different colours; both edits are shown and
\* pending, both submissions still in flight
C22_Witness ==
    /\ Cardinality(submissions) = 2
    /\ DOMAIN pendingUpdates = Cells
    /\ pendingUpdates[<<0, 0>>] # pendingUpdates[<<1, 0>>]
    /\ \A cell \in Cells :
           localPixelData[cell[2] * canvasWidth + cell[1] + 1] = pendingUpdates[cell]

----------------------------------------------------------------------------
(* C23: when the submission of a local edit (x, y, c) fails, the pending   *)
(* entry of (x, y) is cleared and the shown colour of (x, y) is not rolled *)
(* back: the cell shows after the failure callback what it showed before.  *)
C23_FailureKeepsOptimistic ==
    [][\A s \in Submissions :
          SubmitRejected(s) =>
              /\ ~MapHas(pendingUpdates', <<s.x, s.y>>)
              /\ localPixelData' = localPixelData]_vars

\* the submission of an edit was rejected; the cell shows the edit's colour
\* and has no pending entry
C23_Witness ==
    \E s \in Submissions :
        /\ [id |-> s.id, outcome |-> "rejected"] \in settled
        /\ latestEdit[<<s.x, s.y>>] = s.id
        /\ s \notin submissions
        /\ localPixelData[s.y * canvasWidth + s.x + 1] = s.color
        /\ s.color \in Palette
        /\ ~MapHas(pendingUpdates, <<s.x, s.y>>)

----------------------------------------------------------------------------
----------------------------------------------------------------------------
----------------------------------------------------------------------------
(* C30: updatePixel (with a valid colour) and resizeCanvas called when no  *)
(* canvas record exists fail with a not-found error and neither create a   *)
(* record nor change any state.                                            *)
C30_NotFoundWithoutRecord ==
    [][(/\ Commit("p1")
        /\ Len(db) = 0
        /\ \/ tx["p1"].op = "resizeCanvas"
           \/ tx["p1"].op = "updatePixel" /\ tx["p1"].args.color \in Palette)
       => (/\ tx'["p1"].threw = "Canvas not found"
           /\ db' = db
           /\ env' = env)]_vars

\* an updatePixel with a valid colour has failed for want of a record
C30_Witness ==
    /\ tx["p1"].pc = "done"
    /\ tx["p1"].op = "updatePixel"
    /\ tx["p1"].args.color \in Palette
    /\ tx["p1"].threw = "Canvas not found"
    /\ db = <<>>

----------------------------------------------------------------------------
(* Reconnection of the channel, checked in SpecChannel                     *)

\* C24: the n-th delay scheduled since the last successful connection is
\* min(1000 * 2^(n-1), 30000) milliseconds: 1000, 2000, 4000, 8000, 16000
C24_BackoffDoubles ==
    \A n \in 1..Len(delays) :
        delays[n] = Min(BACKOFF_BASE * Pow2(n - 1), BACKOFF_CAP)

\* C25: without a successful connection in between, at most five
\* reconnects are scheduled and at most five are made
C25_BoundedReconnects ==
    /\ Len(delays) <= MAX_RECONNECT_ATTEMPTS
    /\ reconnects <= MAX_RECONNECT_ATTEMPTS

\* a reconnect timeout fires in this step
TimerFired == timers' # timers /\ timers' \subseteq timers

\* C26: a reconnect timeout that fires after the teardown, or while the
\* channel is connected again, opens no connection
C26_NoStaleReconnect ==
    [][(TimerFired /\ (~mounted \/ isConnected))
           => Len(sockets') = Len(sockets)]_vars

----------------------------------------------------------------------------
(* Fallback sync, checked in SpecSync                                      *)

\* C27: when the interval fires and no channel event was seen for longer
\* than the window, the client requests a full read of the canvas
C27_FallbackReadsCanvas ==
    [][(FallbackTick /\ now - lastServerSync > FALLBACK_WINDOW)
           => canvasQueries' = canvasQueries + 1]_vars

----------------------------------------------------------------------------
(* Canonical form of the compressed string, checked in SpecCodec           *)

\* the colour of a token, `${count}:${color}` or the bare colour
TokenColor(token) ==
    IF Includes(token, ":") THEN Split(token, ":")[2] ELSE token

\* the count of a token, 1 for a bare colour
TokenCount(token) ==
    IF Includes(token, ":") THEN parseInt(Split(token, ":")[1]).val ELSE 1

\* the tokens compressPixelData returned
Tokens == Split(cCompressed, "|")

\* C31 as stated: no two adjacent tokens of the output of
\* compressPixelData have the same colour
C31_NoAdjacentSameColour ==
    cPc \in {"compressed", "decompressed"} =>
        \A k \in 1..(Len(Tokens) - 1) :
            TokenColor(Tokens[k]) # TokenColor(Tokens[k + 1])

\* C31 amended: two adjacent tokens of the output of compressPixelData have
\* the same colour only when the first of them is a run of the full 999
C31_CanonicalUpToCap ==
    cPc \in {"compressed", "decompressed"} =>
        \A k \in 1..(Len(Tokens) - 1) :
            TokenColor(Tokens[k]) = TokenColor(Tokens[k + 1])
                => TokenCount(Tokens[k]) = MAX_RUN_LENGTH

\* an array with a run of two equal colours next to another colour has
\* been compressed into two tokens of different colours
C31_Witness ==
    /\ cPc = "compressed"
    /\ Len(cPixels) = 3
    /\ cPixels[1] = cPixels[2]
    /\ cPixels[2] # cPixels[3]
    /\ Len(Tokens) = 2
    /\ TokenColor(Tokens[1]) # TokenColor(Tokens[2])

----------------------------------------------------------------------------
(* Frame of updatePixel, checked in Spec                                   *)

\* the linear index updatePixel computes for the call of caller p
IndexOf(p) == tx[p].args.y * tx[p].size[1] + tx[p].args.x

\* the call of caller p is an updatePixel that completes with success in
\* this step, on a record stored at the configured size, and its linear
\* index names a cell of the grid
PaintsAtStoredSize(p) ==
    /\ tx[p].pc = "running" /\ tx'[p].pc = "done"
    /\ tx[p].op = "updatePixel"
    /\ tx'[p].threw = ""
    /\ Len(db) = 1
    /\ StoredGrid(db).width = tx[p].size[1]
    /\ StoredGrid(db).height = tx[p].size[2]
    /\ IndexOf(p) >= 0 /\ IndexOf(p) < tx[p].size[1] * tx[p].size[2]

----------------------------------------------------------------------------
(* Pending entries of the client, checked in SpecClient                    *)

\* the updatePixel call made in this step
NewSubmission == CHOOSE s \in submissions' : s \notin submissions

\* this step is a local edit of a cell that has a call in flight
EditsCellInFlight ==
    /\ edits' = edits + 1
    /\ \E s \in submissions :
           s.x = NewSubmission.x /\ s.y = NewSubmission.y

\* C33: a local edit c2 of a cell whose earlier edit c1 is still in flight
\* leaves one pending entry for the cell, with colour c2, and the cell
\* rendered as c2; the pending map has one entry per coordinate at most
C33_NewestEditSupersedes ==
    /\ [](/\ DOMAIN pendingUpdates \subseteq Cells
          /\ \A k \in DOMAIN pendingUpdates : pendingUpdates[k] \in Palette)
    /\ [][EditsCellInFlight =>
              LET key == <<NewSubmission.x, NewSubmission.y>>
              IN  /\ MapHas(pendingUpdates', key)
                  /\ pendingUpdates'[key] = NewSubmission.color
                  /\ localPixelData'[key[2] * canvasWidth + key[1] + 1]
                         = NewSubmission.color
                  /\ \A k \in Cells \ {key} :
                         /\ MapHas(pendingUpdates', k) = MapHas(pendingUpdates, k)
                         /\ MapHas(pendingUpdates, k)
                                => pendingUpdates'[k] = pendingUpdates[k]]_vars

\* two edits of one cell, of different colours, are both in flight: the
\* pending entry and the rendered cell have the colour of the second
C33_Witness ==
    \E s1, s2 \in submissions :
        /\ s1.id = 1 /\ s2.id = 2
        /\ s1.x = s2.x /\ s1.y = s2.y
        /\ s1.color # s2.color
        /\ MapHas(pendingUpdates, <<s2.x, s2.y>>)
        /\ pendingUpdates[<<s2.x, s2.y>>] = s2.color
        /\ localPixelData[s2.y * canvasWidth + s2.x + 1] = s2.color

----------------------------------------------------------------------------
(* Convergence of the client to the store, checked in SpecHeal             *)

\* the grid the client renders is the grid the store holds
RenderedIsStored == localPixelData = StoredGrid(db).pixels

\* every local edit has been made and has settled
EditsOver == edits = MaxEdits /\ submissions = {}

----------------------------------------------------------------------------
(* updatePixel on a record that awaits its resize, checked in Spec         *)

\* the call of caller p is an updatePixel that completes with success in
\* this step on a record whose stored size is not the configured one
PaintsAtOtherSize(p) ==
    /\ tx[p].pc = "running" /\ tx'[p].pc = "done"
    /\ tx[p].op = "updatePixel"
    /\ tx'[p].threw = ""
    /\ Len(db) = 1
    /\ <<StoredGrid(db).width, StoredGrid(db).height>> # tx[p].size

\* C35: updatePixel on a record whose stored size differs from the
\* configured one leaves every cell other than its target, inside both the
\* stored and the configured extent, with the colour it had
C35_PendingResizeKept ==
    [][\A p \in Procs :
           PaintsAtOtherSize(p) =>
               LET before == StoredGrid(db)
                   after  == StoredGrid(db')
               IN  \A x \in 0..(Min(before.width, tx[p].size[1]) - 1),
                      y \in 0..(Min(before.height, tx[p].size[2]) - 1) :
                       <<x, y>> # <<tx[p].args.x, tx[p].args.y>>
                           => /\ InBounds(x, y, <<after.width, after.height>>)
                              /\ CellOf(after, x, y) = CellOf(before, x, y)]_vars

----------------------------------------------------------------------------
(* updatePixels against updatePixel, checked in SpecBatch                  *)

RECURSIVE UpdateEach(_, _, _, _)
\* the table after an updatePixel call for every entry from i on, in order
UpdateEach(docs, size, pixels, i) ==
    IF i > Len(pixels) THEN docs
    ELSE UpdateEach(updatePixelDoc(docs, size, pixels[i]).docs,
                    size, pixels, i + 1)

\* updatePixels was called with a batch of valid colours and in-bounds
\* coordinates
BatchAllApplies ==
    /\ lastBatch.called
    /\ ~HasInvalidColor(lastBatch.pixels)
    /\ \A i \in 1..Len(lastBatch.pixels) :
           InBounds(lastBatch.pixels[i].x, lastBatch.pixels[i].y, env)

----------------------------------------------------------------------------
(* Independence of the cells, checked in SpecClient                        *)

\* a local edit of cell c is in flight
InFlight(c) == \E s \in submissions : <<s.x, s.y>> = c

\* this step is an event about cell a: the call of an edit of a settles,
\* or a PIXEL_UPDATE for a arrives
EventAbout(a) ==
    \/ \E s \in Submissions :
           /\ <<s.x, s.y>> = a
           /\ SubmitResolved(s) \/ SubmitRejected(s)
    \/ \E color \in Palette : RemoteUpdate(a[1], a[2], color)

\* C37: with edits of two cells a and b in flight, an event about a leaves
\* the pending entry of b and the rendered colour of b as they were
C37_CellsIndependent ==
    [][\A a, b \in Cells :
           (a # b /\ InFlight(a) /\ InFlight(b) /\ EventAbout(a))
               => /\ MapHas(pendingUpdates', b) = MapHas(pendingUpdates, b)
                  /\ MapHas(pendingUpdates, b)
                         => pendingUpdates'[b] = pendingUpdates[b]
                  /\ localPixelData'[b[2] * canvasWidth + b[1] + 1]
                         = localPixelData[b[2] * canvasWidth + b[1] + 1]]_vars

----------------------------------------------------------------------------
(* Pending entries after their calls settled, checked in SpecClient        *)

----------------------------------------------------------------------------
(* Termination of the bootstrap, checked in SpecBoot                       *)

\* the client is ready: the size is the configured one, the grid is
\* loaded and the loading flag is cleared
Ready ==
    /\ boot.isInitialized
    /\ ~boot.isLoading
    /\ boot.canvasWidth = env[1] /\ boot.canvasHeight = env[2]
    /\ Len(localPixelData) = env[1] * env[2]

\* no step of the bootstrap is left: the delivered value of getCanvas is the
\* present one, no mutation is awaited and no timeout is armed.  A bootstrap
\* run has finitely many steps (one delivery per change of the value, one
\* commit and one continuation per await, one timeout), so under the
\* fairness of SpecBoot every run ends in such a state
BootQuiescent ==
    /\ boot.initialCanvasData = <<getCanvas(db, env).value>>
    /\ boot.awaiting = ""
    /\ ~boot.loadTimer

\* C39: from every store, with every query and mutation returning, the
\* client becomes ready: a run that has no step left has the size set, the
\* grid loaded and the loading flag cleared
C39_BootstrapTerminates == BootQuiescent => Ready

----------------------------------------------------------------------------
(* Well-formedness of the stored record, checked in Spec                   *)

\* the cells the payload of the stored string expands to, before any
\* padding or cutting
StoredExpansion(table) ==
    ExpandParts(Split(extractSizeFromCompressed(table[1]).compressed, "|"),
                1, <<>>)

\* the stored string parses to a positive width and height and its payload
\* expands to exactly width * height cells
WellFormedRecord(table) ==
    LET stored == extractSizeFromCompressed(table[1])
    IN  /\ stored.width > 0 /\ stored.height > 0
        /\ table[1] = addSizeToCompressed(stored.compressed, stored.width,
                                          stored.height)
        /\ Len(stored.compressed) > 0
        /\ Len(StoredExpansion(table)) = stored.width * stored.height

\* the size in the header of the stored string
StoredSize(table) ==
    <<extractSizeFromCompressed(table[1]).width,
      extractSizeFromCompressed(table[1]).height>>

\* the mutation of caller p commits in this step and writes the record
WritesRecord(p) ==
    /\ tx[p].pc = "running" /\ tx'[p].pc = "done"
    /\ db' # db

\* the last call of caller p is a mutation that returned without throwing
MutationSucceeded(p) ==
    /\ tx[p].pc = "done"
    /\ tx[p].op \in {"initializeCanvas", "resizeCanvas", "updatePixel"}
    /\ tx[p].threw = ""

\* C40 as stated: after a successful mutation the stored record is well
\* formed and its size is the one configured at that mutation
C40_SizeOfLastMutation ==
    \A p \in Procs :
        (MutationSucceeded(p) /\ Len(db) = 1)
            => /\ WellFormedRecord(db)
               /\ StoredSize(db) = tx[p].size

\* C40: in every reachable state with a record, after any sequence of
\* initializeCanvas, resizeCanvas and updatePixel calls and changes of SIZE,
\* the stored string parses to a positive width and height and its payload
\* expands, with no padding or cutting, to exactly width * height cells;
\* and the size is the one configured at the last mutation that wrote the
\* record (a mutation that succeeds without writing leaves the size alone)
C40_WellFormedAtWrittenSize ==
    /\ [](Len(db) >= 1 => WellFormedRecord(db))
    /\ [][\A p \in Procs :
              WritesRecord(p) => /\ Len(db') = 1
                                 /\ StoredSize(db') = tx[p].size]_vars

\* SIZE was changed and an updatePixel called after the change has painted
\* a cell of the record, which is stored at the new size
C40_Witness ==
    /\ envChanges = 1
    /\ MutationSucceeded("p1")
    /\ tx["p1"].op = "updatePixel"
    /\ tx["p1"].epoch = 1
    /\ Len(db) = 1
    /\ StoredSize(db) = env
    /\ \E i \in 1..Len(StoredExpansion(db)) : StoredExpansion(db)[i] \in Palette

====
